---- MODULE Spec2Model ----
(***************************************************************************)
(* PokerTH tracker: the statistics accumulator (StatsCalculator over a     *)
(* LogParser), the persisted stores (StatsDB: player_stats and             *)
(* processed_logs), the live watcher (LogWatcher) and the window that      *)
(* drives them (MainWindow), as one state machine.                         *)
(***************************************************************************)
EXTENDS Integers, Sequences, FiniteSets, TLC

(***************************************************************************)
(* Bounds of the model.                                                    *)
(***************************************************************************)
\* actions PokerTH appends to one log file
MaxActions == 2
\* import threads alive at once (a finished thread's place is used again)
MaxImports == 1

(***************************************************************************)
(* The log directory: two pokerth-log-*.pdb files.  PokerTH appends the    *)
(* rows of a fixed hand pattern to a file, one Action row at a time; the   *)
(* Player and Game tables of a file are written when its game starts.      *)
(***************************************************************************)
Files == {"F", "G"}
Names == {"A", "B", "C"}
NoLog == "none"

\* sorted(self.log_dir.glob("pokerth-log-*.pdb"))
SortedFiles == <<"F", "G">>

\* Player table of each file: rows (Player, UniqueGameID, Seat)
PlayerTable ==
  [f \in Files |->
     IF f = "F"
     THEN {[name |-> "A", game |-> 1, seat |-> 1], [name |-> "B", game |-> 1, seat |-> 2]}
     ELSE {[name |-> "C", game |-> 1, seat |-> 1], [name |-> "A", game |-> 1, seat |-> 2]}]

\* Game table of each file: the UniqueGameIDs
GameTable == [f \in Files |-> {1}]

\* one hand of each file, as (BeRo, Player seat, Action) rows in ActionID order
Pattern ==
  [f \in Files |->
     IF f = "F"
     THEN << [bero |-> 0, seat |-> 1, verb |-> "bets"],
             [bero |-> 0, seat |-> 2, verb |-> "calls"],
             [bero |-> 1, seat |-> 1, verb |-> "bets"],
             [bero |-> 1, seat |-> 2, verb |-> "folds"] >>
     ELSE << [bero |-> 0, seat |-> 1, verb |-> "bets"],
             [bero |-> 0, seat |-> 2, verb |-> "is all in with"],
             [bero |-> 0, seat |-> 1, verb |-> "folds"] >>]

\* the i-th Action row of file f (ActionID = i)
ActionRow(f, i) ==
  LET k == Len(Pattern[f])
      r == Pattern[f][((i - 1) % k) + 1]
  IN  [game |-> 1, hand |-> ((i - 1) \div k) + 1,
       bero |-> r.bero, seat |-> r.seat, verb |-> r.verb]

\* the Action table of file f once n rows are written
Content(f, n) == [i \in 1..n |-> ActionRow(f, i)]

(***************************************************************************)
(* Verbs.  The code tests `sub in action.lower()`; a verb of the           *)
(* vocabulary is modelled by the recognised substrings its lower-case      *)
(* form contains.                                                          *)
(***************************************************************************)
LowerSubstrings(verb) ==
  CASE verb = "posts small blind" -> {"blind"}
    [] verb = "posts big blind"   -> {"blind"}
    [] verb = "calls"             -> {"calls"}
    [] verb = "bets"              -> {"bets"}
    [] verb = "is all in with"    -> {"is all in with"}
    [] verb = "folds"             -> {"folds"}
    [] verb = "checks"            -> {"checks"}
    [] verb = "wins"              -> {"wins"}
    [] OTHER                      -> {}

Contains(verb, sub) == sub \in LowerSubstrings(verb)
ContainsAny(verb, subs) == \E s \in subs : Contains(verb, s)

\* a VPIP set without the bet or raise (C37 does not hold of it)
VPIP_ACTIONS_no_bets == {"calls", "is all in with"}

\* a VPIP set without the all-in (C24 does not hold of it)
VPIP_ACTIONS_no_all_in == {"calls", "bets"}

VPIP_ACTIONS == {"calls", "bets", "is all in with"}
PFR_ACTIONS_with_calls == {"calls", "bets", "is all in with"}
PFR_ACTIONS == {"bets", "is all in with"}
AGGRESSIVE_ACTIONS == {"bets", "is all in with"}
PASSIVE_ACTIONS == {"calls"}
RAISE_ACTIONS == {"bets", "is all in with"}
FOLD_ACTIONS == {"folds"}

(***************************************************************************)
(* PlayerStats: the record of one player, player_name and 16 counters.     *)
(***************************************************************************)
Counters ==
  {"total_hands", "vpip_hands", "pfr_hands", "total_bets", "total_calls",
   "three_bet_opportunities", "three_bet_made", "cbet_opportunities", "cbet_made",
   "fold_to_3bet_opportunities", "fold_to_3bet_made",
   "fold_to_cbet_opportunities", "fold_to_cbet_made",
   "hands_saw_flop", "hands_went_to_showdown", "showdowns_won"}

\* PlayerStats(player_name=name): every counter defaults to 0
PlayerStats(name) ==
  [k \in Counters \cup {"player_name"} |-> IF k = "player_name" THEN name ELSE 0]

\* a counter incremented once per element of a set of hands
Count(S) == Cardinality(S)

(***************************************************************************)
(* LogParser: the queries of one log file, over its Action rows `acts`     *)
(* (a sequence in ActionID order) and its Player rows `ptab`.              *)
(***************************************************************************)
get_players(ptab) == {r.name : r \in ptab}

\* {UniqueGameID: Seat} of the player
get_player_seats(ptab, name) ==
  LET rows == {r \in ptab : r.name = name}
  IN  [g \in {r.game : r \in rows} |-> (CHOOSE r \in rows : r.game = g).seat]

IsPlayers(seats, a) == a.game \in DOMAIN seats /\ a.seat = seats[a.game]

get_hands_played_by_player(acts, ptab, name) ==
  LET seats == get_player_seats(ptab, name)
  IN  {<<acts[i].game, acts[i].hand>> : i \in {j \in DOMAIN acts : IsPlayers(seats, acts[j])}}

\* get_actions(game_id, hand_id, betting_round): rows of one round of one hand
get_actions(acts, game, hand, bero) ==
  SelectSeq(acts, LAMBDA a : a.game = game /\ a.hand = hand /\ a.bero = bero)

\* the player's own preflop rows of one hand (get_preflop_actions_by_player, grouped by hand)
preflop_by_hand(acts, seats, key) ==
  SelectSeq(acts, LAMBDA a : a.bero = 0 /\ a.game = key[1] /\ a.hand = key[2]
                             /\ IsPlayers(seats, a))

\* a query that returns the player's rows of its latest betting round only (C36 does
\* not hold of it)
get_all_actions_by_player_last_round(acts, ptab, name) ==
  LET seats == get_player_seats(ptab, name)
      own   == SelectSeq(acts, LAMBDA a : IsPlayers(seats, a))
  IN  IF own = << >> THEN own
      ELSE SelectSeq(own, LAMBDA a : a.bero = own[Len(own)].bero)

get_all_actions_by_player(acts, ptab, name) ==
  LET seats == get_player_seats(ptab, name)
  IN  SelectSeq(acts, LAMBDA a : IsPlayers(seats, a))

hand_has_showdown(acts, game, hand) ==
  \E i \in DOMAIN acts : acts[i].game = game /\ acts[i].hand = hand /\ acts[i].bero = 4

\* seat of the first 'wins' row of the showdown round, 0 when there is none
get_showdown_winner(acts, game, hand) ==
  LET wins == SelectSeq(get_actions(acts, game, hand, 4), LAMBDA a : Contains(a.verb, "wins"))
  IN  IF wins = << >> THEN 0 ELSE wins[1].seat

\* MAX(ActionID), 0 for an empty Action table
get_last_processed_action_id(acts) == Len(acts)

\* players of the last game, ordered by seat
RECURSIVE SeatOrder(_)
SeatOrder(rows) ==
  IF rows = {} THEN << >>
  ELSE LET r == CHOOSE x \in rows : \A y \in rows : x.seat <= y.seat
       IN  <<r.name>> \o SeatOrder(rows \ {r})

get_current_table_players(ptab, games) ==
  IF games = {} THEN << >>
  ELSE LET max_id == CHOOSE g \in games : \A h \in games : h <= g
       IN  SeatOrder({r \in ptab : r.game = max_id})

(***************************************************************************)
(* StatsCalculator: the per-hand analyses and the accumulator.             *)
(***************************************************************************)
\* all preflop rows of a hand the player played ([] for any other hand)
all_preflop_by_hand(acts, hands, key) ==
  IF key \in hands THEN get_actions(acts, key[1], key[2], 0) ELSE << >>

\* the scan of _analyze_three_bet up to the player's first non-blind row
RECURSIVE ThreeBetScan(_, _, _, _)
ThreeBetScan(all, seat, i, raise_before) ==
  IF i > Len(all) THEN [raise_before |-> raise_before, acted |-> FALSE]
  ELSE IF all[i].seat = seat /\ ~Contains(all[i].verb, "blind")
       THEN [raise_before |-> raise_before, acted |-> TRUE]
       ELSE ThreeBetScan(all, seat, i + 1,
                         raise_before \/ ContainsAny(all[i].verb, RAISE_ACTIONS))

\* an analysis that takes a raise anywhere in the preflop round for a raise before
\* the player (C21 does not hold of it)
_analyze_three_bet_any_raise(all, seat, own) ==
  LET opp == /\ \E i \in DOMAIN all : ContainsAny(all[i].verb, RAISE_ACTIONS)
             /\ \E i \in DOMAIN own : ~Contains(own[i].verb, "blind")
  IN  [opportunity |-> opp,
       made |-> opp /\ \E i \in DOMAIN own :
                          /\ ~Contains(own[i].verb, "blind")
                          /\ ContainsAny(own[i].verb, RAISE_ACTIONS)]

_analyze_three_bet(all, seat, own) ==
  LET s   == ThreeBetScan(all, seat, 1, FALSE)
      opp == s.raise_before /\ s.acted
  IN  [opportunity |-> opp,
       made |-> opp /\ \E i \in DOMAIN own :
                          /\ ~Contains(own[i].verb, "blind")
                          /\ ContainsAny(own[i].verb, RAISE_ACTIONS)]

\* an analysis that sees an opportunity only when the player itself acts on the flop
\* (C23 does not hold of it)
_analyze_cbet_player_on_flop(acts, game, hand, seat) ==
  LET flop == get_actions(acts, game, hand, 1)
  IN  [opportunity |-> \E i \in DOMAIN flop : flop[i].seat = seat,
       made |-> \E i \in DOMAIN flop :
                    flop[i].seat = seat /\ ContainsAny(flop[i].verb, RAISE_ACTIONS)]

_analyze_cbet(acts, game, hand, seat) ==
  LET flop == get_actions(acts, game, hand, 1)
  IN  [opportunity |-> flop # << >>,
       made |-> \E i \in DOMAIN flop :
                    flop[i].seat = seat /\ ContainsAny(flop[i].verb, RAISE_ACTIONS)]

\* the loop of _analyze_fold_to_3bet; it stops at the player's fold after a 3-bet
RECURSIVE FoldTo3BetScan(_, _, _, _, _)
FoldTo3BetScan(all, seat, i, player_raised, three_bet) ==
  IF i > Len(all) THEN [opportunity |-> three_bet, folded |-> FALSE]
  ELSE IF all[i].seat = seat
       THEN IF ContainsAny(all[i].verb, RAISE_ACTIONS)
            THEN FoldTo3BetScan(all, seat, i + 1, TRUE, three_bet)
            ELSE IF player_raised /\ three_bet /\ ContainsAny(all[i].verb, FOLD_ACTIONS)
                 THEN [opportunity |-> three_bet, folded |-> TRUE]
                 ELSE FoldTo3BetScan(all, seat, i + 1, player_raised, three_bet)
       ELSE FoldTo3BetScan(all, seat, i + 1, player_raised,
                           three_bet \/ (player_raised
                                         /\ ContainsAny(all[i].verb, RAISE_ACTIONS)))

_analyze_fold_to_3bet(all, seat) == FoldTo3BetScan(all, seat, 1, FALSE, FALSE)

\* the seat of the first preflop raiser other than the player (C22 does not hold of it)
PreflopRaiserSeat_first(all, seat) ==
  LET idx == {i \in DOMAIN all : all[i].seat # seat
                                 /\ ContainsAny(all[i].verb, RAISE_ACTIONS)}
  IN  IF idx = {} THEN 0
      ELSE all[CHOOSE i \in idx : \A j \in idx : i <= j].seat

\* seat of the last preflop raiser other than the player, 0 when there is none
PreflopRaiserSeat(all, seat) ==
  LET idx == {i \in DOMAIN all : all[i].seat # seat
                                 /\ ContainsAny(all[i].verb, RAISE_ACTIONS)}
  IN  IF idx = {} THEN 0
      ELSE all[CHOOSE i \in idx : \A j \in idx : j <= i].seat

\* the flop loop of _analyze_fold_to_cbet; it stops at the player's first row after the c-bet
RECURSIVE FoldToCBetScan(_, _, _, _, _)
FoldToCBetScan(flop, seat, raiser, i, cbet_happened) ==
  IF i > Len(flop) THEN [opportunity |-> FALSE, folded |-> FALSE]
  ELSE IF flop[i].seat = raiser
       THEN FoldToCBetScan(flop, seat, raiser, i + 1,
                           cbet_happened \/ ContainsAny(flop[i].verb, RAISE_ACTIONS))
       ELSE IF flop[i].seat = seat /\ cbet_happened
            THEN [opportunity |-> TRUE,
                  folded |-> ContainsAny(flop[i].verb, FOLD_ACTIONS)]
            ELSE FoldToCBetScan(flop, seat, raiser, i + 1, cbet_happened)

_analyze_fold_to_cbet(acts, game, hand, seat, all) ==
  LET raiser == PreflopRaiserSeat(all, seat)
  IN  IF raiser = 0 THEN [opportunity |-> FALSE, folded |-> FALSE]
      ELSE FoldToCBetScan(get_actions(acts, game, hand, 1), seat, raiser, 1, FALSE)

\* an accumulator that counts a c-bet in every hand whose flop the player bets, raised
\* preflop or not (C14 does not hold of it)
calculate_player_stats_cbet_any_hand(acts, ptab, name) ==
  LET hands == get_hands_played_by_player(acts, ptab, name)
      seats == get_player_seats(ptab, name)
      own(key)  == preflop_by_hand(acts, seats, key)
      all(key)  == all_preflop_by_hand(acts, hands, key)
      seat(key) == seats[key[1]]
      \* hands with a preflop row of the player: the keys of preflop_by_hand
      pre   == {key \in hands : own(key) # << >>}
      NonBlind(key, subs) ==
        \E i \in DOMAIN own(key) : /\ ~Contains(own(key)[i].verb, "blind")
                                   /\ ContainsAny(own(key)[i].verb, subs)
      vpip  == {key \in pre : NonBlind(key, VPIP_ACTIONS)}
      pfr   == {key \in pre : NonBlind(key, PFR_ACTIONS)}
      tb(key)  == _analyze_three_bet(all(key), seat(key), own(key))
      cb(key)  == _analyze_cbet(acts, key[1], key[2], seat(key))
      f3(key)  == _analyze_fold_to_3bet(all(key), seat(key))
      flopk == {key \in hands :
                  \E i \in DOMAIN get_actions(acts, key[1], key[2], 1) :
                      get_actions(acts, key[1], key[2], 1)[i].seat = seat(key)}
      fc(key)  == _analyze_fold_to_cbet(acts, key[1], key[2], seat(key), all(key))
      shown == {key \in flopk :
                  /\ hand_has_showdown(acts, key[1], key[2])
                  /\ \E i \in DOMAIN get_actions(acts, key[1], key[2], 4) :
                         get_actions(acts, key[1], key[2], 4)[i].seat = seat(key)}
      mine  == SelectSeq(get_all_actions_by_player(acts, ptab, name),
                         LAMBDA a : a.bero # 4)
  IN  IF hands = {} THEN PlayerStats(name)
      ELSE [player_name |-> name,
            total_hands |-> Count(hands),
            vpip_hands  |-> Count(vpip),
            pfr_hands   |-> Count(pfr),
            total_bets  |-> Len(SelectSeq(mine, LAMBDA a : ContainsAny(a.verb, AGGRESSIVE_ACTIONS))),
            total_calls |-> Len(SelectSeq(mine, LAMBDA a : ContainsAny(a.verb, PASSIVE_ACTIONS))),
            three_bet_opportunities |-> Count({key \in pre : tb(key).opportunity}),
            three_bet_made          |-> Count({key \in pre : tb(key).opportunity /\ tb(key).made}),
            cbet_opportunities      |-> Count({key \in pfr : cb(key).opportunity}),
            cbet_made               |-> Count({key \in hands : cb(key).made}),
            fold_to_3bet_opportunities |-> Count({key \in pfr : f3(key).opportunity}),
            fold_to_3bet_made          |-> Count({key \in pfr : f3(key).opportunity /\ f3(key).folded}),
            fold_to_cbet_opportunities |-> Count({key \in flopk : fc(key).opportunity}),
            fold_to_cbet_made          |-> Count({key \in flopk : fc(key).opportunity /\ fc(key).folded}),
            hands_saw_flop          |-> Count(flopk),
            hands_went_to_showdown  |-> Count(shown),
            showdowns_won           |-> Count({key \in shown :
                                          get_showdown_winner(acts, key[1], key[2]) = seat(key)})]

\* calculate_player_stats: the record of one player of the file
calculate_player_stats(acts, ptab, name) ==
  LET hands == get_hands_played_by_player(acts, ptab, name)
      seats == get_player_seats(ptab, name)
      own(key)  == preflop_by_hand(acts, seats, key)
      all(key)  == all_preflop_by_hand(acts, hands, key)
      seat(key) == seats[key[1]]
      \* hands with a preflop row of the player: the keys of preflop_by_hand
      pre   == {key \in hands : own(key) # << >>}
      NonBlind(key, subs) ==
        \E i \in DOMAIN own(key) : /\ ~Contains(own(key)[i].verb, "blind")
                                   /\ ContainsAny(own(key)[i].verb, subs)
      vpip  == {key \in pre : NonBlind(key, VPIP_ACTIONS)}
      pfr   == {key \in pre : NonBlind(key, PFR_ACTIONS)}
      tb(key)  == _analyze_three_bet(all(key), seat(key), own(key))
      cb(key)  == _analyze_cbet(acts, key[1], key[2], seat(key))
      f3(key)  == _analyze_fold_to_3bet(all(key), seat(key))
      flopk == {key \in hands :
                  \E i \in DOMAIN get_actions(acts, key[1], key[2], 1) :
                      get_actions(acts, key[1], key[2], 1)[i].seat = seat(key)}
      fc(key)  == _analyze_fold_to_cbet(acts, key[1], key[2], seat(key), all(key))
      shown == {key \in flopk :
                  /\ hand_has_showdown(acts, key[1], key[2])
                  /\ \E i \in DOMAIN get_actions(acts, key[1], key[2], 4) :
                         get_actions(acts, key[1], key[2], 4)[i].seat = seat(key)}
      mine  == SelectSeq(get_all_actions_by_player(acts, ptab, name),
                         LAMBDA a : a.bero # 4)
  IN  IF hands = {} THEN PlayerStats(name)
      ELSE [player_name |-> name,
            total_hands |-> Count(hands),
            vpip_hands  |-> Count(vpip),
            pfr_hands   |-> Count(pfr),
            total_bets  |-> Len(SelectSeq(mine, LAMBDA a : ContainsAny(a.verb, AGGRESSIVE_ACTIONS))),
            total_calls |-> Len(SelectSeq(mine, LAMBDA a : ContainsAny(a.verb, PASSIVE_ACTIONS))),
            three_bet_opportunities |-> Count({key \in pre : tb(key).opportunity}),
            three_bet_made          |-> Count({key \in pre : tb(key).opportunity /\ tb(key).made}),
            cbet_opportunities      |-> Count({key \in pfr : cb(key).opportunity}),
            cbet_made               |-> Count({key \in pfr : cb(key).opportunity /\ cb(key).made}),
            fold_to_3bet_opportunities |-> Count({key \in pfr : f3(key).opportunity}),
            fold_to_3bet_made          |-> Count({key \in pfr : f3(key).opportunity /\ f3(key).folded}),
            fold_to_cbet_opportunities |-> Count({key \in flopk : fc(key).opportunity}),
            fold_to_cbet_made          |-> Count({key \in flopk : fc(key).opportunity /\ fc(key).folded}),
            hands_saw_flop          |-> Count(flopk),
            hands_went_to_showdown  |-> Count(shown),
            showdowns_won           |-> Count({key \in shown :
                                          get_showdown_winner(acts, key[1], key[2]) = seat(key)})]

\* {player_name: PlayerStats} of every player of the file
calculate_all_players_stats(acts, ptab) ==
  [name \in get_players(ptab) |-> calculate_player_stats(acts, ptab, name)]

\* what a LogParser/StatsCalculator pair computes on file f holding n Action rows
FileStats ==
  [f \in Files |-> [n \in 0..(MaxActions + 1) |->
      calculate_all_players_stats(Content(f, n), PlayerTable[f])]]

(***************************************************************************)
(* Dictionaries {player_name: PlayerStats} are functions on a set of       *)
(* names; PlayerStats arithmetic is field by field.                        *)
(***************************************************************************)
EmptyDict == [n \in {} |-> 0]

\* dict.get(name): the record, or the all-zero record where the code reads 0 for None
GetOrZero(d, name) == IF name \in DOMAIN d THEN d[name] ELSE PlayerStats(name)

AddStats(a, b) ==
  [k \in DOMAIN a |-> IF k = "player_name" THEN a.player_name ELSE a[k] + b[k]]

SubStats(a, b) ==
  [k \in DOMAIN a |-> IF k = "player_name" THEN a.player_name ELSE a[k] - b[k]]

\* json.dumps({name: asdict(stats)}): an object of objects of integers, keyed by name
json_dumps(stats) == [n \in DOMAIN stats |-> [k \in DOMAIN stats[n] |-> stats[n][k]]]

\* {name: PlayerStats(**player_data)} of json.loads(text)
json_loads(text) == [n \in DOMAIN text |-> [k \in DOMAIN text[n] |-> text[n][k]]]

(***************************************************************************)
(* StatsDB: player_stats rows `ps` and processed_logs rows `pl`.           *)
(***************************************************************************)
get_all_players_stats(ps) == ps

\* an INSERT that leaves an existing row as it is (C16 does not hold of it)
save_player_stats_keeps_row(ps, stats) ==
  [n \in DOMAIN ps \cup {stats.player_name} |->
     IF n \in DOMAIN ps THEN ps[n] ELSE stats]

\* INSERT ... ON CONFLICT(player_name) DO UPDATE: the row becomes `stats`
save_player_stats(ps, stats) ==
  [n \in DOMAIN ps \cup {stats.player_name} |->
     IF n = stats.player_name THEN stats ELSE ps[n]]

\* get_player_stats: the row of the player, if any (a dict of at most one record)
get_player_stats(ps, player_name) ==
  [n \in DOMAIN ps \cap {player_name} |-> ps[n]]

\* a merge that keeps the new record alone (C15 does not hold of it)
merged_record_overwrite(ps_read, new_stats) == new_stats

\* the record save_player_stats is given by merge_stats, `existing` being the row read
merged_record(ps_read, new_stats) ==
  IF new_stats.player_name \in DOMAIN ps_read
  THEN AddStats(ps_read[new_stats.player_name], new_stats)
  ELSE new_stats

\* merge_stats with its read and its write in one step
merge_stats(ps, new_stats) ==
  save_player_stats(ps, merged_record(get_player_stats(ps, new_stats.player_name), new_stats))

\* merge_stats of every record of a dict, one player after the other
RECURSIVE merge_all(_, _, _)
merge_all(ps, stats, todo) ==
  IF todo = {} THEN ps
  ELSE LET n == CHOOSE x \in todo : TRUE
       IN  merge_all(merge_stats(ps, stats[n]), stats, todo \ {n})

\* an UPDATE that sets last_action_id alone on an existing row (C29 does not hold of it)
set_last_processed_action_id_only(pl, log_path, action_id, stats_json) ==
  [f \in DOMAIN pl \cup {log_path} |->
     IF f # log_path THEN pl[f]
     ELSE IF f \in DOMAIN pl
          THEN [last_action_id |-> action_id, stats_json |-> pl[f].stats_json]
          ELSE [last_action_id |-> action_id, stats_json |-> stats_json]]

set_last_processed_action(pl, log_path, action_id, stats_json) ==
  [f \in DOMAIN pl \cup {log_path} |->
     IF f = log_path THEN [last_action_id |-> action_id, stats_json |-> stats_json]
     ELSE pl[f]]

get_last_processed_action(pl, log_path) ==
  IF log_path \in DOMAIN pl THEN pl[log_path].last_action_id ELSE 0

\* the baseline of a log, {} where the code gets None (`... or {}`)
get_imported_file_stats(pl, log_path) ==
  IF log_path \in DOMAIN pl THEN json_loads(pl[log_path].stats_json) ELSE EmptyDict

\* a clear_all_stats that deletes nothing (C6 does not hold of it)
clear_all_stats_keeps(table) == table

\* clear_all_stats: DELETE FROM player_stats, DELETE FROM processed_logs (either table)
clear_all_stats(table) == EmptyDict

(***************************************************************************)
(* LogWatcher: the fields of one watcher, as a record.                     *)
(***************************************************************************)
NewWatcher ==
  [current_log |-> NoLog, last_action_id |-> 0, current_table_players |-> << >>,
   current_file_stats |-> EmptyDict, imported_file_stats |-> EmptyDict]

Range(seq) == {seq[i] : i \in DOMAIN seq}

\* a view that is persisted + file - baseline whatever records exist, a missing
\* record read as all-zero (C7 does not hold of it)
aggregated_player_formula(ps, w, name) ==
  SubStats(AddStats(GetOrZero(ps, name), GetOrZero(w.current_file_stats, name)),
           GetOrZero(w.imported_file_stats, name))

\* get_aggregated_table_stats: persisted + file - baseline for the table's players
aggregated_player(ps, w, name) ==
  LET db_player   == ps[name]
      file_player == w.current_file_stats[name]
  IN  IF name \in DOMAIN ps /\ name \in DOMAIN w.current_file_stats
      THEN SubStats(AddStats(db_player, file_player),
                    GetOrZero(w.imported_file_stats, name))
      ELSE IF name \in DOMAIN ps THEN db_player ELSE file_player

get_aggregated_table_stats(ps, w) ==
  [name \in {n \in Range(w.current_table_players) :
               n \in DOMAIN ps \/ n \in DOMAIN w.current_file_stats}
     |-> aggregated_player(ps, w, name)]

\* a _process_updates that adds each poll's totals to those of the poll before,
\* instead of replacing them (C1 does not hold of it)
_process_updates_adding(w, f, n, lock) ==
  IF lock = "read" \/ get_last_processed_action_id(Content(f, n)) <= w.last_action_id
  THEN w
  ELSE LET w1 == [w EXCEPT !.current_file_stats =
                              [p \in DOMAIN FileStats[f][n] |->
                                 AddStats(FileStats[f][n][p], GetOrZero(@, p))],
                           !.last_action_id = get_last_processed_action_id(Content(f, n))]
       IN  IF lock = "table" THEN w1
           ELSE [w1 EXCEPT !.current_table_players =
                              get_current_table_players(PlayerTable[f], GameTable[f])]

\* _process_updates on a log holding n rows; lock = where sqlite3.OperationalError is raised
\* ("none", "read": before the stats are computed, "table": at get_current_table_players)
_process_updates(w, f, n, lock) ==
  IF lock = "read" \/ get_last_processed_action_id(Content(f, n)) <= w.last_action_id
  THEN w
  ELSE LET w1 == [w EXCEPT !.current_file_stats = FileStats[f][n],
                           !.last_action_id = get_last_processed_action_id(Content(f, n))]
       IN  IF lock = "table" THEN w1
           ELSE [w1 EXCEPT !.current_table_players =
                              get_current_table_players(PlayerTable[f], GameTable[f])]

\* whether that _process_updates call reaches stats_updated.emit
emits_stats(w, f, n, lock) ==
  lock = "none" /\ get_last_processed_action_id(Content(f, n)) > w.last_action_id

\* a _switch_to_log that loads no baseline (C4 does not hold of it)
_switch_to_log_no_baseline(w, pl, log_path) ==
  [w EXCEPT !.current_log = log_path,
            !.last_action_id = 0,
            !.current_file_stats = EmptyDict,
            !.imported_file_stats = EmptyDict]

\* _switch_to_log up to its closing _process_updates
_switch_to_log(w, pl, log_path) ==
  [w EXCEPT !.current_log = log_path,
            !.last_action_id = 0,
            !.current_file_stats = EmptyDict,
            !.imported_file_stats = get_imported_file_stats(pl, log_path)]

\* the delta save_pending_stats merges for one player
pending_delta(w, name) ==
  IF name \in DOMAIN w.imported_file_stats
  THEN SubStats(w.current_file_stats[name], w.imported_file_stats[name])
  ELSE w.current_file_stats[name]

pending_deltas(w) == [n \in DOMAIN w.current_file_stats |-> pending_delta(w, n)]

\* save_pending_stats returns at once without a log or without file stats
has_pending(w) == w.current_log # NoLog /\ DOMAIN w.current_file_stats # {}

save_pending_player_stats(ps, w) ==
  IF has_pending(w)
  THEN merge_all(ps, pending_deltas(w), DOMAIN w.current_file_stats)
  ELSE ps

save_pending_processed_logs(pl, w) ==
  IF has_pending(w)
  THEN set_last_processed_action(pl, w.current_log, w.last_action_id,
                                 json_dumps(w.current_file_stats))
  ELSE pl

\* a save_pending_stats that leaves the watcher's baseline as it was (C38 does not
\* hold of it)
save_pending_watcher_keeps_baseline(w) == w

\* the watcher after save_pending_stats: the baseline becomes a copy of the current stats
save_pending_watcher(w) ==
  IF has_pending(w)
  THEN [w EXCEPT !.imported_file_stats = w.current_file_stats]
  ELSE w

\* import_all_logs, one pass of its loop over file f holding n rows: the merges ...
import_file_player_stats(ps, f, n) ==
  merge_all(ps, FileStats[f][n], DOMAIN FileStats[f][n])

\* ... and the baseline entry
import_file_processed_logs(pl, f, n) ==
  set_last_processed_action(pl, f, get_last_processed_action_id(Content(f, n)),
                            json_dumps(FileStats[f][n]))

\* the loop of import_all_logs from pdb_files[i] on, n the rows of each file
RECURSIVE import_files(_, _, _)
import_files(db, i, n) ==
  IF i > Len(SortedFiles) THEN db
  ELSE LET f == SortedFiles[i]
       IN  import_files([player_stats   |-> import_file_player_stats(db.player_stats, f, n[f]),
                         processed_logs |-> import_file_processed_logs(db.processed_logs, f, n[f])],
                        i + 1, n)

\* import_all_logs run from start to end with nothing in between
import_all_logs(ps, pl, n) ==
  import_files([player_stats |-> clear_all_stats(ps), processed_logs |-> clear_all_stats(pl)],
               1, n)

\* LogParser.has_actions of the latest log (called by _start_tracking)
has_actions(n) == n > 0

(***************************************************************************)
(* State.                                                                  *)
(***************************************************************************)
VARIABLES
  flen,             \* log directory: number of Action rows of each file
  latest,           \* log directory: the file with the latest st_mtime
  player_stats,     \* StatsDB: the player_stats table (the Aggregate Store)
  processed_logs,   \* StatsDB: the processed_logs table (the Baseline Ledger)
  is_tracking,      \* MainWindow.is_tracking
  watcher_thread,   \* MainWindow._watcher_thread: "none", "started" (start() queued), "running"
  log_watcher,      \* MainWindow.log_watcher: the fields of the tracking LogWatcher
  table_stats,      \* the last payload of stats_updated / table_stats_ready
  import_thread,    \* MainWindow._import_thread: 0 (None) or the import it runs
  import_pc,        \* each import thread: "idle", "clear", "files", "signal", "done"
  import_idx,       \* each import thread: index in pdb_files of the next file
  cancelled,        \* each import: the user pressed Cancel on its progress dialog
  merged_from,      \* history: per source and player, the deltas merged since the last clear
  merges,           \* merge_stats calls taken step by step: the store they began on, and
                    \* per thread the call's position, argument and the row it has read
  clearing,         \* a clear_all_stats call taken statement by statement: its position
                    \* and the tables as its connection sees them inside its transaction
  calc,             \* a log under the accumulator: its Action rows and the records
                    \* calculate_all_players_stats produced from them
  imported,         \* each import: the local `imported` of import_all_logs
  raised,           \* history: per import, the sources whose pass raised an error
  stats_table,      \* MainWindow.stats_table: its rows as displayed and its sort indicator
  viewing           \* a get_aggregated_table_stats call of the UI thread between its
                    \* reads of _current_file_stats and _imported_file_stats

\* no get_aggregated_table_stats call is between its two reads
NoView == [name |-> "none"]

dirVars     == <<flen, latest>>
dbVars      == <<player_stats, processed_logs>>
trackVars   == <<is_tracking, watcher_thread, log_watcher>>
importVars  == <<import_thread, import_pc, import_idx, cancelled>>
vars == <<flen, latest, player_stats, processed_logs, is_tracking, watcher_thread,
          log_watcher, table_stats, import_thread, import_pc, import_idx, cancelled,
          merged_from, merges, clearing, calc, imported, raised, stats_table,
          viewing>>

Imports == 1..MaxImports

NoneMerged == [f \in Files |-> [n \in Names |-> PlayerStats(n)]]

\* the deltas `stats` of source f added to the history
RecordMerge(m, f, stats) ==
  [m EXCEPT ![f] = [n \in Names |-> IF n \in DOMAIN stats THEN AddStats(@[n], stats[n])
                                    ELSE @[n]]]

\* the threads that call merge_stats: an import thread (import_all_logs) and the
\* UI thread (save_pending_stats)
MergeThreads == {"import", "commit"}

\* no merge_stats call is being followed step by step
NoMerges ==
  [prior |-> EmptyDict,
   calls |-> [t \in MergeThreads |-> [pc |-> "idle", new_stats |-> PlayerStats("A"),
                                      existing |-> EmptyDict]]]

\* no clear_all_stats call is being followed statement by statement
NoClearing ==
  [pc |-> "idle", tx |-> [player_stats |-> EmptyDict, processed_logs |-> EmptyDict]]

\* no log is under the accumulator
NoCalc == [acts |-> << >>, stats |-> EmptyDict]

\* the table before its first update: no row, sorted by column 10 (hands), descending
NoTable == [rows |-> << >>, sort |-> <<10, "desc">>]

Init ==
  /\ merges = NoMerges
  /\ clearing = NoClearing
  /\ calc = NoCalc
  /\ imported = [i \in Imports |-> 0]
  /\ raised = [i \in Imports |-> {}]
  /\ stats_table = NoTable
  /\ viewing = NoView
  /\ flen = [f \in Files |-> 0]
  /\ latest \in Files
  /\ player_stats = EmptyDict
  /\ processed_logs = EmptyDict
  /\ is_tracking = FALSE
  /\ watcher_thread = "none"
  /\ log_watcher = NewWatcher
  /\ table_stats = EmptyDict
  /\ import_thread = 0
  /\ import_pc = [i \in Imports |-> "idle"]
  /\ import_idx = [i \in Imports |-> 1]
  /\ cancelled = [i \in Imports |-> FALSE]
  /\ merged_from = NoneMerged

(***************************************************************************)
(* PokerTH, the other process: appends one Action row to a log.            *)
(***************************************************************************)
AppendAction(f) ==
  /\ flen[f] < MaxActions
  /\ flen' = [flen EXCEPT ![f] = @ + 1]
  /\ latest' = f
  /\ UNCHANGED <<dbVars, trackVars, table_stats, importVars, merged_from, merges, clearing, calc, imported, raised, stats_table, viewing>>

(***************************************************************************)
(* MainWindow, on the UI thread.  The import progress dialog is modal:     *)
(* while it is shown (import_thread # 0) the window takes no input.        *)
(***************************************************************************)
\* a _start_tracking that asks for two actions in the log (C32 does not hold of it)
StartTracking_two_actions(readable) ==
  /\ ~is_tracking
  /\ import_thread = 0
  /\ IF readable /\ has_actions(flen[latest] - 1)
     THEN /\ is_tracking' = TRUE
          /\ watcher_thread' = "started"
          /\ log_watcher' = NewWatcher
          /\ UNCHANGED <<dirVars, dbVars, table_stats, importVars, merged_from, merges, clearing, calc, imported, raised, stats_table, viewing>>
     ELSE UNCHANGED vars

\* _toggle_tracking -> _start_tracking; readable: LogParser(latest).has_actions()
\* raises nothing.  Without data the warning is shown and nothing changes.
StartTracking(readable) ==
  /\ ~is_tracking
  /\ import_thread = 0
  /\ IF readable /\ has_actions(flen[latest])
     THEN /\ is_tracking' = TRUE
          /\ watcher_thread' = "started"
          /\ log_watcher' = NewWatcher
          /\ UNCHANGED <<dirVars, dbVars, table_stats, importVars, merged_from, merges, clearing, calc, imported, raised, stats_table, viewing>>
     ELSE UNCHANGED vars

\* _toggle_tracking -> _stop_tracking: the watcher thread is stopped, then save_pending_stats
StopTracking ==
  /\ is_tracking
  /\ import_thread = 0
  /\ player_stats' = save_pending_player_stats(player_stats, log_watcher)
  /\ processed_logs' = save_pending_processed_logs(processed_logs, log_watcher)
  /\ merged_from' = IF has_pending(log_watcher)
                    THEN RecordMerge(merged_from, log_watcher.current_log,
                                     pending_deltas(log_watcher))
                    ELSE merged_from
  /\ is_tracking' = FALSE
  /\ watcher_thread' = "none"
  /\ log_watcher' = NewWatcher
  /\ table_stats' = EmptyDict
  /\ UNCHANGED <<dirVars, importVars, merges, clearing, calc, imported, raised, stats_table, viewing>>

\* File > Clear stats, confirmed
ClearStats ==
  /\ import_thread = 0
  /\ player_stats' = clear_all_stats(player_stats)
  /\ processed_logs' = clear_all_stats(processed_logs)
  /\ table_stats' = EmptyDict
  /\ merged_from' = NoneMerged
  /\ UNCHANGED <<dirVars, trackVars, importVars, merges, clearing, calc, imported, raised, stats_table, viewing>>

\* _import_all_logs, confirmed: a new thread and a new LogWatcher for the import
StartImport(i) ==
  /\ import_thread = 0
  /\ ~is_tracking
  /\ import_pc[i] \in {"idle", "done"}
  /\ \A j \in Imports : j < i => import_pc[j] \notin {"idle", "done"}
  /\ import_thread' = i
  /\ import_pc' = [import_pc EXCEPT ![i] = "clear"]
  /\ cancelled' = [cancelled EXCEPT ![i] = FALSE]
  /\ UNCHANGED <<dirVars, dbVars, trackVars, table_stats, import_idx, merged_from, merges, clearing, calc, imported, raised, stats_table, viewing>>

\* _cleanup_import: quit(), wait(3000), then the thread is forgotten, finished or not
_cleanup_import == import_thread' = 0

\* the dialog's Cancel -> _on_import_canceled
CancelImport ==
  /\ import_thread # 0
  /\ cancelled' = [cancelled EXCEPT ![import_thread] = TRUE]
  /\ _cleanup_import
  /\ UNCHANGED <<dirVars, dbVars, trackVars, table_stats, import_pc, import_idx, merged_from, merges, clearing, calc, imported, raised, stats_table, viewing>>

\* import_finished delivered -> _on_import_finished
OnImportFinished(i) ==
  /\ import_pc[i] = "signal"
  /\ import_pc' = [import_pc EXCEPT ![i] = "done"]
  /\ _cleanup_import
  /\ UNCHANGED <<dirVars, dbVars, trackVars, table_stats, import_idx, cancelled, merged_from, merges, clearing, calc, imported, raised, stats_table, viewing>>

\* a direct call of log_watcher.request_table_stats (HUD shown, _on_stats_updated, ...)
RequestTableStats ==
  /\ is_tracking
  /\ table_stats' = get_aggregated_table_stats(get_all_players_stats(player_stats), log_watcher)
  /\ UNCHANGED <<dirVars, dbVars, trackVars, importVars, merged_from, merges, clearing, calc, imported, raised, stats_table, viewing>>

(***************************************************************************)
(* The tracking LogWatcher, on its thread.                                 *)
(***************************************************************************)
\* _find_current_log and what follows it in start() and _poll_for_changes:
\* a switch to the latest log with its own _process_updates, then, in a poll,
\* _process_updates again
find_and_process(w, pl, n, lock1, lock2, again) ==
  LET w1 == IF latest # w.current_log
            THEN _process_updates(_switch_to_log(w, pl, latest), latest, n[latest], lock1)
            ELSE w
  IN  IF again THEN _process_updates(w1, w1.current_log, n[w1.current_log], lock2) ELSE w1

\* the payload of the last stats_updated.emit of those calls, if any
emitted(w, pl, ps, n, lock1, lock2, again) ==
  LET w0 == _switch_to_log(w, pl, latest)
      w1 == IF latest # w.current_log THEN _process_updates(w0, latest, n[latest], lock1) ELSE w
      e1 == latest # w.current_log /\ emits_stats(w0, latest, n[latest], lock1)
      e2 == again /\ emits_stats(w1, w1.current_log, n[w1.current_log], lock2)
      w2 == find_and_process(w, pl, n, lock1, lock2, again)
  IN  IF e2 THEN get_aggregated_table_stats(ps, w2)
      ELSE IF e1 THEN get_aggregated_table_stats(ps, w1)
      ELSE table_stats

Locks == {"none", "read", "table"}

\* LogWatcher.start, run when the thread starts
WatcherStart(lock) ==
  /\ watcher_thread = "started"
  /\ watcher_thread' = "running"
  /\ log_watcher' = find_and_process(log_watcher, processed_logs, flen, lock, "none", FALSE)
  /\ table_stats' = emitted(log_watcher, processed_logs, player_stats, flen, lock, "none", FALSE)
  /\ UNCHANGED <<dirVars, dbVars, is_tracking, importVars, merged_from, merges, clearing, calc, imported, raised, stats_table, viewing>>

\* a poll that merges the totals it computed into player_stats, the fusion that
\* _switch_to_log's "pas de fusion DB" rules out (C2 does not hold of it)
Poll_merging(lock1, lock2) ==
  /\ watcher_thread = "running"
  /\ latest = log_watcher.current_log => lock1 = "none"
  /\ log_watcher' = find_and_process(log_watcher, processed_logs, flen, lock1, lock2, TRUE)
  /\ table_stats' = emitted(log_watcher, processed_logs, player_stats, flen, lock1, lock2, TRUE)
  /\ player_stats' = merge_all(player_stats, log_watcher'.current_file_stats,
                               DOMAIN log_watcher'.current_file_stats)
  /\ UNCHANGED <<dirVars, processed_logs, is_tracking, watcher_thread, importVars, merged_from, merges, clearing, calc, imported, raised, stats_table, viewing>>

\* _poll_for_changes, on the timer
Poll(lock1, lock2) ==
  /\ watcher_thread = "running"
  /\ latest = log_watcher.current_log => lock1 = "none"
  /\ log_watcher' = find_and_process(log_watcher, processed_logs, flen, lock1, lock2, TRUE)
  /\ table_stats' = emitted(log_watcher, processed_logs, player_stats, flen, lock1, lock2, TRUE)
  /\ UNCHANGED <<dirVars, dbVars, is_tracking, watcher_thread, importVars, merged_from, merges, clearing, calc, imported, raised, stats_table, viewing>>

(***************************************************************************)
(* An import LogWatcher, on its thread: request_import_all_logs.           *)
(***************************************************************************)
\* import_all_logs: clear_all_stats before the loop
ImportClear(i) ==
  /\ import_pc[i] = "clear"
  /\ player_stats' = clear_all_stats(player_stats)
  /\ processed_logs' = clear_all_stats(processed_logs)
  /\ merged_from' = NoneMerged
  /\ import_pc' = [import_pc EXCEPT ![i] = "files"]
  /\ import_idx' = [import_idx EXCEPT ![i] = 1]
  /\ imported' = [imported EXCEPT ![i] = 0]
  /\ raised' = [raised EXCEPT ![i] = {}]
  /\ UNCHANGED <<dirVars, trackVars, table_stats, import_thread, cancelled, merges, clearing, calc,
                 stats_table, viewing>>

\* import_all_logs: one pass of the loop, over pdb_files[import_idx]
ImportFile(i) ==
  /\ import_pc[i] = "files"
  /\ import_idx[i] <= Len(SortedFiles)
  /\ LET f == SortedFiles[import_idx[i]]
         file_stats == FileStats[f][flen[f]]
     IN  /\ player_stats' = import_file_player_stats(player_stats, f, flen[f])
         /\ processed_logs' = import_file_processed_logs(processed_logs, f, flen[f])
         /\ merged_from' = RecordMerge(merged_from, f, file_stats)
  /\ import_idx' = [import_idx EXCEPT ![i] = @ + 1]
  /\ imported' = [imported EXCEPT ![i] = @ + 1]
  /\ UNCHANGED <<dirVars, trackVars, table_stats, import_thread, import_pc, cancelled, merges,
                 clearing, calc, raised, stats_table, viewing>>

\* import_all_logs returns; import_finished is emitted
ImportReturn(i) ==
  /\ import_pc[i] = "files"
  /\ import_idx[i] > Len(SortedFiles)
  /\ import_pc' = [import_pc EXCEPT ![i] = "signal"]
  /\ UNCHANGED <<dirVars, dbVars, trackVars, table_stats, import_thread, import_idx,
                 cancelled, merged_from, merges, clearing, calc, imported, raised, stats_table, viewing>>

Next ==
  \/ \E f \in Files : AppendAction(f)
  \/ \E readable \in BOOLEAN : StartTracking(readable)
  \/ StopTracking
  \/ ClearStats
  \/ \E i \in Imports : StartImport(i)
  \/ CancelImport
  \/ \E i \in Imports : OnImportFinished(i)
  \/ RequestTableStats
  \/ \E lock \in Locks : WatcherStart(lock)
  \/ \E lock1, lock2 \in Locks : Poll(lock1, lock2)
  \/ \E i \in Imports : ImportClear(i)
  \/ \E i \in Imports : ImportFile(i)
  \/ \E i \in Imports : ImportReturn(i)

Spec == Init /\ [][Next]_vars

(***************************************************************************)
(* The runs in which no import is cancelled: an import then ends with its  *)
(* dialog still up, so imports, tracking sessions and clear-alls follow    *)
(* one another and never overlap.                                          *)
(***************************************************************************)
NextSerial ==
  \/ \E f \in Files : AppendAction(f)
  \/ \E readable \in BOOLEAN : StartTracking(readable)
  \/ StopTracking
  \/ ClearStats
  \/ \E i \in Imports : StartImport(i)
  \/ \E i \in Imports : OnImportFinished(i)
  \/ RequestTableStats
  \/ \E lock \in Locks : WatcherStart(lock)
  \/ \E lock1, lock2 \in Locks : Poll(lock1, lock2)
  \/ \E i \in Imports : ImportClear(i)
  \/ \E i \in Imports : ImportFile(i)
  \/ \E i \in Imports : ImportReturn(i)

SpecSerial == Init /\ [][NextSerial]_vars

(***************************************************************************)
(* The runs in which a log may also be cut short: the file is truncated or *)
(* replaced by a shorter one, its first rows being those of the pattern.   *)
(***************************************************************************)
TruncateLog(f) ==
  /\ \E n \in 0..(flen[f] - 1) : flen' = [flen EXCEPT ![f] = n]
  /\ latest' = f
  /\ UNCHANGED <<dbVars, trackVars, table_stats, importVars, merged_from, merges,
                 clearing, calc, imported, raised, stats_table, viewing>>

NextTruncate ==
  \/ NextSerial
  \/ \E f \in Files : TruncateLog(f)

SpecTruncate == Init /\ [][NextTruncate]_vars

(***************************************************************************)
(* The accumulator on arbitrary logs: one heads-up hand of game 1 between  *)
(* the players of file F, written row by row.  A row follows the rows      *)
(* before it as PokerTH writes them: rounds in order, the two seats in     *)
(* turn within a round, a blind only as a seat's first preflop row, and    *)
(* no row once a seat has folded.                                          *)
(***************************************************************************)
MaxRows == 5

\* Action values: the verbs the accumulator tells apart, and "sits out", which holds
\* no recognised substring
CalcVerbs == {"posts big blind", "bets", "calls", "is all in with", "folds", "sits out"}

CalcRows == [game : {1}, hand : {1}, bero : {0, 1}, seat : {1, 2}, verb : CalcVerbs]

CanFollow(acts, row) ==
  /\ \A i \in DOMAIN acts : ~Contains(acts[i].verb, "folds")
  /\ Contains(row.verb, "blind")
       => row.bero = 0 /\ \A i \in DOMAIN acts : acts[i].seat # row.seat
  /\ acts # << >>
       => LET last == acts[Len(acts)]
          IN  /\ row.bero >= last.bero
              /\ row.bero = last.bero => row.seat # last.seat

\* StatsCalculator(LogParser(file)).calculate_all_players_stats() on the rows written
CalcOf(acts) == [acts |-> acts, stats |-> calculate_all_players_stats(acts, PlayerTable["F"])]

InitCalc ==
  /\ flen = [f \in Files |-> 0]
  /\ latest = "F"
  /\ player_stats = EmptyDict
  /\ processed_logs = EmptyDict
  /\ is_tracking = FALSE
  /\ watcher_thread = "none"
  /\ log_watcher = NewWatcher
  /\ table_stats = EmptyDict
  /\ import_thread = 0
  /\ import_pc = [i \in Imports |-> "idle"]
  /\ import_idx = [i \in Imports |-> 1]
  /\ cancelled = [i \in Imports |-> FALSE]
  /\ merged_from = NoneMerged
  /\ merges = NoMerges
  /\ clearing = NoClearing
  /\ calc = CalcOf(<< >>)
  /\ imported = [i \in Imports |-> 0]
  /\ raised = [i \in Imports |-> {}]
  /\ stats_table = NoTable
  /\ viewing = NoView

\* PokerTH writes one more row; the accumulator runs on the log
CalcAppend(row) ==
  /\ Len(calc.acts) < MaxRows
  /\ CanFollow(calc.acts, row)
  /\ calc' = CalcOf(Append(calc.acts, row))
  /\ UNCHANGED <<dirVars, dbVars, trackVars, table_stats, importVars, merged_from, merges,
                 clearing, imported, raised, stats_table, viewing>>

NextCalc == \E row \in CalcRows : CalcAppend(row)

SpecCalc == InitCalc /\ [][NextCalc]_vars

(***************************************************************************)
(* The runs in which a pass of the import loop may raise: the file is gone *)
(* or unreadable when LogParser opens or reads it, so the pass ends in the *)
(* except clause before it has merged anything.                            *)
(***************************************************************************)
\* a pass whose error ends import_all_logs (C17 does not hold of it)
ImportFileRaises_aborting(i) ==
  /\ import_pc[i] = "files"
  /\ import_idx[i] <= Len(SortedFiles)
  /\ raised' = [raised EXCEPT ![i] = @ \cup {SortedFiles[import_idx[i]]}]
  /\ import_idx' = [import_idx EXCEPT ![i] = Len(SortedFiles) + 1]
  /\ UNCHANGED <<dirVars, dbVars, trackVars, table_stats, import_thread, import_pc, cancelled,
                 merged_from, merges, clearing, calc, imported, stats_table, viewing>>

\* import_all_logs: one pass of the loop that raises; the error is printed and the
\* loop goes on with the next file
ImportFileRaises(i) ==
  /\ import_pc[i] = "files"
  /\ import_idx[i] <= Len(SortedFiles)
  /\ raised' = [raised EXCEPT ![i] = @ \cup {SortedFiles[import_idx[i]]}]
  /\ import_idx' = [import_idx EXCEPT ![i] = @ + 1]
  /\ UNCHANGED <<dirVars, dbVars, trackVars, table_stats, import_thread, import_pc, cancelled,
                 merged_from, merges, clearing, calc, imported, stats_table, viewing>>

NextImportErr ==
  \/ NextSerial
  \/ \E i \in Imports : ImportFileRaises(i)

SpecImportErr == Init /\ [][NextImportErr]_vars

\* import_all_logs: one pass of the loop that raises after the merge_stats calls of
\* the players `done` have committed (at the merge_stats of the next player, or, with
\* every player merged, at get_last_processed_action_id or set_last_processed_action):
\* the except clause is entered before the ledger entry is written
ImportFileRaisesMerging(i, done) ==
  /\ import_pc[i] = "files"
  /\ import_idx[i] <= Len(SortedFiles)
  /\ LET f == SortedFiles[import_idx[i]]
         file_stats == FileStats[f][flen[f]]
         merged == [n \in done |-> file_stats[n]]
     IN  /\ done # {}
         /\ done \subseteq DOMAIN file_stats
         /\ player_stats' = merge_all(player_stats, file_stats, done)
         /\ merged_from' = RecordMerge(merged_from, f, merged)
         /\ raised' = [raised EXCEPT ![i] = @ \cup {f}]
  /\ import_idx' = [import_idx EXCEPT ![i] = @ + 1]
  /\ UNCHANGED <<dirVars, processed_logs, trackVars, table_stats, import_thread, import_pc,
                 cancelled, merges, clearing, calc, imported, stats_table, viewing>>

SpecImportMergeErr ==
  Init /\ [][NextImportErr \/ \E i \in Imports : \E done \in SUBSET Names :
                                ImportFileRaisesMerging(i, done)]_vars

\* the loop of import_all_logs over the sources `order` that raise no error, n the
\* rows of each file
RECURSIVE import_sources(_, _, _)
import_sources(db, order, n) ==
  IF order = << >> THEN db
  ELSE LET f == Head(order)
       IN  import_sources([player_stats   |-> import_file_player_stats(db.player_stats, f, n[f]),
                           processed_logs |-> import_file_processed_logs(db.processed_logs, f, n[f])],
                          Tail(order), n)

(***************************************************************************)
(* The runs without Cancel in which the poll timer keeps firing and the    *)
(* tracked log, locked now and then by PokerTH, is readable again and      *)
(* again: a poll that meets no lock is taken whenever it would change the  *)
(* watcher or the view.                                                    *)
(***************************************************************************)
SpecPollFair == Init /\ [][NextSerial]_vars /\ WF_vars(Poll("none", "none"))

(***************************************************************************)
(* The accumulator on the logs of one three-handed hand of game 1, written *)
(* row by row: rounds in order, no seat twice in a row within a round, the  *)
(* big blind of seat 2 only as the first row, no row of a seat that has    *)
(* folded, and no row once two seats have folded.                          *)
(***************************************************************************)
MaxRows3 == 4

\* Player table of the three-handed game
PlayerTable3 ==
  {[name |-> "A", game |-> 1, seat |-> 1], [name |-> "B", game |-> 1, seat |-> 2],
   [name |-> "C", game |-> 1, seat |-> 3]}

Calc3Verbs == {"posts big blind", "bets", "calls", "folds"}

CalcRows3 == [game : {1}, hand : {1}, bero : {0, 1}, seat : {1, 2, 3}, verb : Calc3Verbs]

Folded(acts) == {acts[i].seat : i \in {j \in DOMAIN acts : Contains(acts[j].verb, "folds")}}

CanFollow3(acts, row) ==
  /\ row.seat \notin Folded(acts)
  /\ Cardinality(Folded(acts)) < 2
  /\ Contains(row.verb, "blind") => row.bero = 0 /\ row.seat = 2 /\ acts = << >>
  /\ acts # << >>
       => LET last == acts[Len(acts)]
          IN  /\ row.bero >= last.bero
              /\ row.bero = last.bero => row.seat # last.seat

CalcOf3(acts) == [acts |-> acts, stats |-> calculate_all_players_stats(acts, PlayerTable3)]

InitCalc3 ==
  /\ flen = [f \in Files |-> 0]
  /\ latest = "F"
  /\ player_stats = EmptyDict
  /\ processed_logs = EmptyDict
  /\ is_tracking = FALSE
  /\ watcher_thread = "none"
  /\ log_watcher = NewWatcher
  /\ table_stats = EmptyDict
  /\ import_thread = 0
  /\ import_pc = [i \in Imports |-> "idle"]
  /\ import_idx = [i \in Imports |-> 1]
  /\ cancelled = [i \in Imports |-> FALSE]
  /\ merged_from = NoneMerged
  /\ merges = NoMerges
  /\ clearing = NoClearing
  /\ calc = CalcOf3(<< >>)
  /\ imported = [i \in Imports |-> 0]
  /\ raised = [i \in Imports |-> {}]
  /\ stats_table = NoTable
  /\ viewing = NoView

CalcAppend3(row) ==
  /\ Len(calc.acts) < MaxRows3
  /\ CanFollow3(calc.acts, row)
  /\ calc' = CalcOf3(Append(calc.acts, row))
  /\ UNCHANGED <<dirVars, dbVars, trackVars, table_stats, importVars, merged_from, merges,
                 clearing, imported, raised, stats_table, viewing>>

NextCalc3 == \E row \in CalcRows3 : CalcAppend3(row)

SpecCalc3 == InitCalc3 /\ [][NextCalc3]_vars

\* the three-handed log with rows appended in any order of the betting rounds: the
\* accumulator runs on whatever rows the Action table holds
CalcAppendAny(row) ==
  /\ Len(calc.acts) < MaxRows3
  /\ row.seat \notin Folded(calc.acts)
  /\ Cardinality(Folded(calc.acts)) < 2
  /\ Contains(row.verb, "blind") => row.bero = 0 /\ row.seat = 2 /\ calc.acts = << >>
  /\ calc' = CalcOf3(Append(calc.acts, row))
  /\ UNCHANGED <<dirVars, dbVars, trackVars, table_stats, importVars, merged_from, merges,
                 clearing, imported, raised, stats_table, viewing>>

SpecCalcAny == InitCalc3 /\ [][\E row \in CalcRows3 : CalcAppendAny(row)]_vars

(***************************************************************************)
(* The accumulator on a heads-up hand that can reach the showdown: rows of *)
(* the preflop, flop and showdown rounds (BeRo 0, 1 and 4).                 *)
(***************************************************************************)
MaxRowsSD == 4

\* Action values of the betting rounds and of the showdown round
BetVerbs == {"bets", "calls", "folds"}

ShowVerbs == {"shows", "wins"}

ShowRows == [game : {1}, hand : {1}, bero : {0, 1}, seat : {1, 2}, verb : BetVerbs]
              \cup [game : {1}, hand : {1}, bero : {4}, seat : {1, 2}, verb : ShowVerbs]

\* rounds follow each other, seats alternate within a betting round, nobody bets
\* after a fold, and a seat that folded has no row in the showdown round
CanFollowSD(acts, row) ==
  /\ row.seat \notin Folded(acts)
  /\ row.bero < 4 => Folded(acts) = {}
  /\ acts # << >>
       => LET last == acts[Len(acts)]
          IN  /\ row.bero >= last.bero
              /\ (row.bero = last.bero /\ row.bero < 4) => row.seat # last.seat

InitShow ==
  /\ flen = [f \in Files |-> 0]
  /\ latest = "F"
  /\ player_stats = EmptyDict
  /\ processed_logs = EmptyDict
  /\ is_tracking = FALSE
  /\ watcher_thread = "none"
  /\ log_watcher = NewWatcher
  /\ table_stats = EmptyDict
  /\ import_thread = 0
  /\ import_pc = [i \in Imports |-> "idle"]
  /\ import_idx = [i \in Imports |-> 1]
  /\ cancelled = [i \in Imports |-> FALSE]
  /\ merged_from = NoneMerged
  /\ merges = NoMerges
  /\ clearing = NoClearing
  /\ calc = CalcOf(<< >>)
  /\ imported = [i \in Imports |-> 0]
  /\ raised = [i \in Imports |-> {}]
  /\ stats_table = NoTable
  /\ viewing = NoView

\* PokerTH writes one more row; the accumulator runs on the log
ShowAppend(row) ==
  /\ Len(calc.acts) < MaxRowsSD
  /\ CanFollowSD(calc.acts, row)
  /\ calc' = CalcOf(Append(calc.acts, row))
  /\ UNCHANGED <<dirVars, dbVars, trackVars, table_stats, importVars, merged_from, merges,
                 clearing, imported, raised, stats_table, viewing>>

NextShow == \E row \in ShowRows : ShowAppend(row)

SpecShow == InitShow /\ [][NextShow]_vars

(***************************************************************************)
(* calculate_player_stats beside PokerTH writing the log.  The parser's    *)
(* connection is read-only and runs every SELECT on its own, so each read  *)
(* sees the rows committed when it is executed.  The reads are taken in    *)
(* five groups, in the order of the code: the hands played, the player's   *)
(* preflop rows, all preflop rows, the per-hand rounds, and all rows of    *)
(* the player; rows are appended between the groups.  Two hands, preflop   *)
(* rows only, player A in seat 1.                                          *)
(***************************************************************************)
MaxRowsRd == 3

Reads == <<"hands", "own", "all", "rounds", "mine">>

ReadRows == [game : {1}, hand : {1, 2}, bero : {0}, seat : {1, 2},
             verb : {"posts big blind", "bets"}]

\* hands are written one after the other; a blind is a seat's first row of its hand
CanFollowRd(acts, row) ==
  /\ \A i \in DOMAIN acts : acts[i].hand <= row.hand
  /\ Contains(row.verb, "blind")
       => \A i \in DOMAIN acts : ~(acts[i].hand = row.hand /\ acts[i].seat = row.seat)

\* calculate_player_stats whose reads see the logs r.hands, r.own, r.all, r.rounds, r.mine
calculate_player_stats_reads(r, ptab, name) ==
  LET hands == get_hands_played_by_player(r.hands, ptab, name)
      seats == get_player_seats(ptab, name)
      own(key)  == preflop_by_hand(r.own, seats, key)
      all(key)  == all_preflop_by_hand(r.all, hands, key)
      seat(key) == seats[key[1]]
      \* the keys of preflop_by_hand
      pre   == {<<r.own[i].game, r.own[i].hand>> :
                  i \in {j \in DOMAIN r.own : r.own[j].bero = 0 /\ IsPlayers(seats, r.own[j])}}
      NonBlind(key, subs) ==
        \E i \in DOMAIN own(key) : /\ ~Contains(own(key)[i].verb, "blind")
                                   /\ ContainsAny(own(key)[i].verb, subs)
      vpip  == {key \in pre : NonBlind(key, VPIP_ACTIONS)}
      pfr   == {key \in pre : NonBlind(key, PFR_ACTIONS)}
      tb(key)  == _analyze_three_bet(all(key), seat(key), own(key))
      cb(key)  == _analyze_cbet(r.rounds, key[1], key[2], seat(key))
      f3(key)  == _analyze_fold_to_3bet(all(key), seat(key))
      flopk == {key \in hands :
                  \E i \in DOMAIN get_actions(r.rounds, key[1], key[2], 1) :
                      get_actions(r.rounds, key[1], key[2], 1)[i].seat = seat(key)}
      fc(key)  == _analyze_fold_to_cbet(r.rounds, key[1], key[2], seat(key), all(key))
      shown == {key \in flopk :
                  /\ hand_has_showdown(r.rounds, key[1], key[2])
                  /\ \E i \in DOMAIN get_actions(r.rounds, key[1], key[2], 4) :
                         get_actions(r.rounds, key[1], key[2], 4)[i].seat = seat(key)}
      mine  == SelectSeq(get_all_actions_by_player(r.mine, ptab, name),
                         LAMBDA a : a.bero # 4)
  IN  IF hands = {} THEN PlayerStats(name)
      ELSE [player_name |-> name,
            total_hands |-> Count(hands),
            vpip_hands  |-> Count(vpip),
            pfr_hands   |-> Count(pfr),
            total_bets  |-> Len(SelectSeq(mine, LAMBDA a : ContainsAny(a.verb, AGGRESSIVE_ACTIONS))),
            total_calls |-> Len(SelectSeq(mine, LAMBDA a : ContainsAny(a.verb, PASSIVE_ACTIONS))),
            three_bet_opportunities |-> Count({key \in pre : tb(key).opportunity}),
            three_bet_made          |-> Count({key \in pre : tb(key).opportunity /\ tb(key).made}),
            cbet_opportunities      |-> Count({key \in pfr : cb(key).opportunity}),
            cbet_made               |-> Count({key \in pfr : cb(key).opportunity /\ cb(key).made}),
            fold_to_3bet_opportunities |-> Count({key \in pfr : f3(key).opportunity}),
            fold_to_3bet_made          |-> Count({key \in pfr : f3(key).opportunity /\ f3(key).folded}),
            fold_to_cbet_opportunities |-> Count({key \in flopk : fc(key).opportunity}),
            fold_to_cbet_made          |-> Count({key \in flopk : fc(key).opportunity /\ fc(key).folded}),
            hands_saw_flop          |-> Count(flopk),
            hands_went_to_showdown  |-> Count(shown),
            showdowns_won           |-> Count({key \in shown :
                                          get_showdown_winner(r.rounds, key[1], key[2]) = seat(key)})]

\* the log each read group saw: seen[k] is the number of rows committed at read k
ReadsOf(acts, seen) ==
  [hands  |-> SubSeq(acts, 1, seen[1]), own  |-> SubSeq(acts, 1, seen[2]),
   all    |-> SubSeq(acts, 1, seen[3]), rounds |-> SubSeq(acts, 1, seen[4]),
   mine   |-> SubSeq(acts, 1, seen[5])]

NoStats == [player_name |-> "none"]

InitReads ==
  /\ flen = [f \in Files |-> 0]
  /\ latest = "F"
  /\ player_stats = EmptyDict
  /\ processed_logs = EmptyDict
  /\ is_tracking = FALSE
  /\ watcher_thread = "none"
  /\ log_watcher = NewWatcher
  /\ table_stats = EmptyDict
  /\ import_thread = 0
  /\ import_pc = [i \in Imports |-> "idle"]
  /\ import_idx = [i \in Imports |-> 1]
  /\ cancelled = [i \in Imports |-> FALSE]
  /\ merged_from = NoneMerged
  /\ merges = NoMerges
  /\ clearing = NoClearing
  /\ calc = [acts |-> << >>, seen |-> << >>, stats |-> NoStats]
  /\ imported = [i \in Imports |-> 0]
  /\ raised = [i \in Imports |-> {}]
  /\ stats_table = NoTable
  /\ viewing = NoView

\* PokerTH commits one more row
ReadsAppend(row) ==
  /\ Len(calc.acts) < MaxRowsRd
  /\ CanFollowRd(calc.acts, row)
  /\ calc' = [calc EXCEPT !.acts = Append(@, row)]
  /\ UNCHANGED <<dirVars, dbVars, trackVars, table_stats, importVars, merged_from, merges,
                 clearing, imported, raised, stats_table, viewing>>

\* calculate_player_stats("A") runs its next read group; it returns after the first one
\* when no hand was played, and after the last one otherwise
ReadsStep ==
  /\ Len(calc.seen) < Len(Reads)
  /\ LET n == Len(calc.acts)
         seen == IF calc.seen = << >>
                    /\ get_hands_played_by_player(calc.acts, PlayerTable["F"], "A") = {}
                 THEN [k \in DOMAIN Reads |-> n]
                 ELSE Append(calc.seen, n)
     IN  calc' = [calc EXCEPT
                    !.seen = seen,
                    !.stats = IF Len(seen) = Len(Reads)
                              THEN calculate_player_stats_reads(ReadsOf(calc.acts, seen),
                                                                PlayerTable["F"], "A")
                              ELSE NoStats]
  /\ UNCHANGED <<dirVars, dbVars, trackVars, table_stats, importVars, merged_from, merges,
                 clearing, imported, raised, stats_table, viewing>>

\* the next poll calls calculate_player_stats again
ReadsAgain ==
  /\ Len(calc.seen) = Len(Reads)
  /\ calc' = [calc EXCEPT !.seen = << >>, !.stats = NoStats]
  /\ UNCHANGED <<dirVars, dbVars, trackVars, table_stats, importVars, merged_from, merges,
                 clearing, imported, raised, stats_table, viewing>>

SpecReads ==
  InitReads /\ [][(\E row \in ReadRows : ReadsAppend(row)) \/ ReadsStep \/ ReadsAgain]_vars

(***************************************************************************)
(* PlayerStats: the derived properties.  A float is kept as the exact      *)
(* fraction num/den, and float('inf') as a value of its own.               *)
(***************************************************************************)
Ratio(n, d) == [inf |-> FALSE, num |-> n, den |-> d]

Infinity == [inf |-> TRUE, num |-> 1, den |-> 0]

\* AF with the infinite case dropped
af_zero_without_calls(s) ==
  IF s.total_calls = 0 THEN Ratio(0, 1) ELSE Ratio(s.total_bets, s.total_calls)

\* PlayerStats.af
af(s) ==
  IF s.total_calls = 0
  THEN IF s.total_bets > 0 THEN Infinity ELSE Ratio(0, 1)
  ELSE Ratio(s.total_bets, s.total_calls)

\* PlayerStats.vpip, pfr, three_bet, cbet, fold_to_3bet, fold_to_cbet, wtsd, wsd
percentages(s) ==
  LET pct(made, total) == IF total = 0 THEN Ratio(0, 1) ELSE Ratio(made * 100, total)
  IN  [vpip         |-> pct(s.vpip_hands, s.total_hands),
       pfr          |-> pct(s.pfr_hands, s.total_hands),
       three_bet    |-> pct(s.three_bet_made, s.three_bet_opportunities),
       cbet         |-> pct(s.cbet_made, s.cbet_opportunities),
       fold_to_3bet |-> pct(s.fold_to_3bet_made, s.fold_to_3bet_opportunities),
       fold_to_cbet |-> pct(s.fold_to_cbet_made, s.fold_to_cbet_opportunities),
       wtsd         |-> pct(s.hands_went_to_showdown, s.hands_saw_flop),
       wsd          |-> pct(s.showdowns_won, s.hands_went_to_showdown)]

(***************************************************************************)
(* MainWindow.stats_table: the rows _update_stats_table builds from the    *)
(* stored records, and their order under the column the table is sorted    *)
(* by.  Of the eleven columns the name, AF and hands columns are kept; an  *)
(* item is the _value it sorts by (its text takes no part in the order).   *)
(***************************************************************************)
MaxCount == 2

\* the value an infinite AF is given in its table item
AF_INF_VALUE == 9999

\* counters of a stored record: small ones, and bets around AF_INF_VALUE per call
BetCounts == (0..MaxCount) \cup {AF_INF_VALUE * c + e : c \in 1..MaxCount, e \in {-1, 0, 1}}

StoredRecord(name, bets, calls) ==
  [PlayerStats(name) EXCEPT !.total_bets = bets, !.total_calls = calls,
                            !.total_hands = bets + calls + 1]

\* NumericTableWidgetItem.__lt__
__lt__(self, other) ==
  IF self.inf THEN FALSE
  ELSE IF other.inf THEN TRUE
  ELSE self.num * other.den < other.num * self.den

\* the items of one row
TableRow(name, s) ==
  [name  |-> name,
   af    |-> IF af(s) # Infinity THEN af(s) ELSE Ratio(AF_INF_VALUE, 1),
   hands |-> Ratio(s.total_hands, 1)]

\* the orders a sort by the column may leave the rows in: no row is followed by
\* one that belongs before it
Sortings(rowset, col, order) ==
  LET item(row) == IF col = 3 THEN row.af ELSE row.hands
  IN  {o \in [1..Cardinality(rowset) -> rowset] :
         /\ \A r \in rowset : \E i \in DOMAIN o : o[i] = r
         /\ \A i, j \in DOMAIN o :
              i < j => IF order = "asc" THEN ~__lt__(item(o[j]), item(o[i]))
                       ELSE ~__lt__(item(o[i]), item(o[j]))}

\* the store holds a record for A and one for B
InitTable ==
  /\ flen = [f \in Files |-> 0]
  /\ latest = "F"
  /\ \E ba, bb \in BetCounts : \E ca, cb \in 0..MaxCount :
       player_stats = [n \in {"A", "B"} |-> IF n = "A" THEN StoredRecord("A", ba, ca)
                                            ELSE StoredRecord("B", bb, cb)]
  /\ processed_logs = EmptyDict
  /\ is_tracking = FALSE
  /\ watcher_thread = "none"
  /\ log_watcher = NewWatcher
  /\ table_stats = EmptyDict
  /\ import_thread = 0
  /\ import_pc = [i \in Imports |-> "idle"]
  /\ import_idx = [i \in Imports |-> 1]
  /\ cancelled = [i \in Imports |-> FALSE]
  /\ merged_from = NoneMerged
  /\ merges = NoMerges
  /\ clearing = NoClearing
  /\ calc = NoCalc
  /\ imported = [i \in Imports |-> 0]
  /\ raised = [i \in Imports |-> {}]
  /\ stats_table = NoTable
  /\ viewing = NoView

\* _update_stats_table(get_all_players_stats()): sorting is switched off, the rows
\* are filled, sorting is switched on again and the table sorts by its indicator
_update_stats_table ==
  LET stats  == get_all_players_stats(player_stats)
      filled == {TableRow(n, stats[n]) : n \in DOMAIN stats}
  IN  /\ \E o \in Sortings(filled, stats_table.sort[1], stats_table.sort[2]) :
           stats_table' = [stats_table EXCEPT !.rows = o]
      /\ UNCHANGED <<dirVars, dbVars, trackVars, table_stats, importVars, merged_from, merges,
                     clearing, calc, imported, raised, viewing>>

\* the user clicks a column header
sortByColumn(col, order) ==
  /\ stats_table.rows # << >>
  /\ \E o \in Sortings({stats_table.rows[i] : i \in DOMAIN stats_table.rows}, col, order) :
       stats_table' = [rows |-> o, sort |-> <<col, order>>]
  /\ UNCHANGED <<dirVars, dbVars, trackVars, table_stats, importVars, merged_from, merges,
                 clearing, calc, imported, raised, viewing>>

NextTable ==
  \/ _update_stats_table
  \/ \E col \in {3, 10} : \E order \in {"asc", "desc"} : sortByColumn(col, order)

SpecTable == InitTable /\ [][NextTable]_vars

(***************************************************************************)
(* The runs without Cancel in which every tracking period ends (the user   *)
(* presses Stop some time after Start) and an import thread, once started, *)
(* runs import_all_logs to its end.                                        *)
(***************************************************************************)
SpecTrackingStops ==
  /\ Init /\ [][NextSerial]_vars
  /\ WF_vars(StopTracking)
  /\ \A i \in Imports : WF_vars(ImportClear(i) \/ ImportFile(i) \/ ImportReturn(i))

(***************************************************************************)
(* The runs without Cancel in which the main window may be closed: the     *)
(* application exits and, started again, is as __init__ leaves it, on the  *)
(* database it left.                                                       *)
(***************************************************************************)
\* closeEvent: the watcher is stopped and its thread is quit; save_pending_stats is
\* not called
closeEvent ==
  /\ import_thread = 0
  /\ is_tracking' = FALSE
  /\ watcher_thread' = "none"
  /\ log_watcher' = NewWatcher
  /\ table_stats' = EmptyDict
  /\ UNCHANGED <<dirVars, dbVars, importVars, merged_from, merges, clearing, calc, imported,
                 raised, stats_table, viewing>>

SpecClose == Init /\ [][NextSerial \/ closeEvent]_vars

(***************************************************************************)
(* request_table_stats is called directly by the UI thread, so             *)
(* get_aggregated_table_stats runs there while the watcher thread polls    *)
(* and switches logs; no lock guards the watcher's fields.  The call is    *)
(* taken in two steps for one table player that has both a persisted and   *)
(* a current record: the reads up to file_player, and the read of imp      *)
(* with the rest of the call.  Between them only the watcher thread and    *)
(* PokerTH run: the UI thread is inside the call.                          *)
(***************************************************************************)
\* get_aggregated_table_stats up to `file_player = self._current_file_stats.get(name)`
ViewReadFile(name) ==
  /\ is_tracking
  /\ viewing = NoView
  /\ name \in Range(log_watcher.current_table_players)
  /\ name \in DOMAIN player_stats
  /\ name \in DOMAIN log_watcher.current_file_stats
  /\ viewing' = [name        |-> name,
                 table       |-> log_watcher.current_table_players,
                 db_stats    |-> get_all_players_stats(player_stats),
                 file_player |-> log_watcher.current_file_stats[name],
                 file_of     |-> log_watcher.current_log]
  /\ UNCHANGED <<dirVars, dbVars, trackVars, table_stats, importVars, merged_from, merges,
                 clearing, calc, imported, raised, stats_table>>

\* ... and from `imp = self._imported_file_stats.get(name)` to table_stats_ready.emit
ViewReadBaseline ==
  /\ viewing # NoView
  /\ LET name == viewing.name
         imp  == GetOrZero(log_watcher.imported_file_stats, name)
         rest == {n \in Range(viewing.table) \ {name} :
                    n \in DOMAIN viewing.db_stats \/ n \in DOMAIN log_watcher.current_file_stats}
     IN  table_stats' =
           [n \in rest \cup {name} |->
              IF n = name
              THEN SubStats(AddStats(viewing.db_stats[name], viewing.file_player), imp)
              ELSE aggregated_player(viewing.db_stats, log_watcher, n)]
  /\ viewing' = NoView
  /\ UNCHANGED <<dirVars, dbVars, trackVars, importVars, merged_from, merges, clearing, calc,
                 imported, raised, stats_table>>

\* the UI thread takes no other request while it is inside the call
NextViewRace ==
  \/ \E f \in Files : AppendAction(f)
  \/ \E lock \in Locks : WatcherStart(lock)
  \/ \E lock1, lock2 \in Locks : Poll(lock1, lock2)
  \/ viewing = NoView /\ \E readable \in BOOLEAN : StartTracking(readable)
  \/ viewing = NoView /\ StopTracking
  \/ \E name \in Names : ViewReadFile(name)
  \/ ViewReadBaseline

SpecViewRace == Init /\ [][NextViewRace]_vars

(***************************************************************************)
(* merge_stats step by step: two threads each run one merge_stats call on  *)
(* the same player_stats table, the read (get_player_stats) and the write  *)
(* (save_player_stats) of a call being separate statements on separate     *)
(* connections.                                                            *)
(***************************************************************************)
\* the records the program passes to merge_stats
Deltas ==
  UNION {{FileStats[f][n][p] : p \in DOMAIN FileStats[f][n]} :
           f \in Files, n \in 1..MaxActions}

\* the stores a call may start on
PriorStores == {EmptyDict} \cup {FileStats[f][MaxActions] : f \in Files}

InitMerge ==
  /\ flen = [f \in Files |-> 0]
  /\ latest = "F"
  /\ player_stats \in PriorStores
  /\ processed_logs = EmptyDict
  /\ is_tracking = FALSE
  /\ watcher_thread = "none"
  /\ log_watcher = NewWatcher
  /\ table_stats = EmptyDict
  /\ import_thread = 0
  /\ import_pc = [i \in Imports |-> "idle"]
  /\ import_idx = [i \in Imports |-> 1]
  /\ cancelled = [i \in Imports |-> FALSE]
  /\ merged_from = NoneMerged
  /\ clearing = NoClearing
  /\ calc = NoCalc
  /\ imported = [i \in Imports |-> 0]
  /\ raised = [i \in Imports |-> {}]
  /\ stats_table = NoTable
  /\ viewing = NoView
  /\ \E d \in [MergeThreads -> Deltas] :
       merges = [prior |-> player_stats,
                 calls |-> [t \in MergeThreads |->
                              [pc |-> "read", new_stats |-> d[t], existing |-> EmptyDict]]]

\* merge_stats: existing = self.get_player_stats(new_stats.player_name)
MergeRead(t) ==
  /\ merges.calls[t].pc = "read"
  /\ merges' = [merges EXCEPT !.calls[t].pc = "write",
                              !.calls[t].existing =
                                 get_player_stats(player_stats,
                                                  merges.calls[t].new_stats.player_name)]
  /\ UNCHANGED <<dirVars, dbVars, trackVars, table_stats, importVars, merged_from,
                 clearing, calc, imported, raised, stats_table, viewing>>

\* merge_stats: self.save_player_stats(merged) / self.save_player_stats(new_stats)
MergeWrite(t) ==
  /\ merges.calls[t].pc = "write"
  /\ player_stats' = save_player_stats(player_stats,
                         merged_record(merges.calls[t].existing, merges.calls[t].new_stats))
  /\ merges' = [merges EXCEPT !.calls[t].pc = "done"]
  /\ UNCHANGED <<dirVars, processed_logs, trackVars, table_stats, importVars, merged_from,
                 clearing, calc, imported, raised, stats_table, viewing>>

NextMerge == \E t \in MergeThreads : MergeRead(t) \/ MergeWrite(t)

SpecMerge == InitMerge /\ [][NextMerge]_vars

(***************************************************************************)
(* clear_all_stats statement by statement.  The call runs its two DELETEs  *)
(* and its commit on one connection; a connection is modelled by the       *)
(* committed tables `db` every other connection reads and the tables `tx`  *)
(* as the connection itself sees them.  The merge_stats calls of an import *)
(* and of a commit run beside it.                                          *)
(***************************************************************************)
\* a connection that commits each statement as it runs (C11 does not hold of it)
execute_delete_autocommit(c, table) ==
  [c EXCEPT !.tx[table] = EmptyDict, !.db[table] = EmptyDict]

\* conn.execute("DELETE FROM <table>"): the sqlite3 connection opens a transaction
\* before the statement, so the deletion stays inside the transaction
execute_delete(c, table) == [c EXCEPT !.tx[table] = EmptyDict]

\* conn.commit(): the transaction's tables become the committed ones
commit(c) == [c EXCEPT !.db = c.tx]

\* the committed tables, and the connection of the clear_all_stats call
Committed == [player_stats |-> player_stats, processed_logs |-> processed_logs]
ClearConn == [db |-> Committed, tx |-> clearing.tx]

\* the call's transaction is open: it holds the write lock of the database
ClearTxOpen == clearing.pc \in {"delete_logs", "commit"}

\* the databases a clear_all_stats call may find: those a batch import leaves
ImportedDBs ==
  {import_all_logs(EmptyDict, EmptyDict, n) : n \in [Files -> 1..MaxActions]}

InitClear ==
  /\ flen = [f \in Files |-> 0]
  /\ latest = "F"
  /\ \E db \in ImportedDBs :
       /\ player_stats = db.player_stats
       /\ processed_logs = db.processed_logs
       /\ \E d \in [MergeThreads -> Deltas] :
            merges = [prior |-> db.player_stats,
                      calls |-> [t \in MergeThreads |->
                                   [pc |-> "read", new_stats |-> d[t], existing |-> EmptyDict]]]
  /\ is_tracking = FALSE
  /\ watcher_thread = "none"
  /\ log_watcher = NewWatcher
  /\ table_stats = EmptyDict
  /\ import_thread = 0
  /\ import_pc = [i \in Imports |-> "idle"]
  /\ import_idx = [i \in Imports |-> 1]
  /\ cancelled = [i \in Imports |-> FALSE]
  /\ merged_from = NoneMerged
  /\ clearing = [NoClearing EXCEPT !.pc = "delete_players"]
  /\ calc = NoCalc
  /\ imported = [i \in Imports |-> 0]
  /\ raised = [i \in Imports |-> {}]
  /\ stats_table = NoTable
  /\ viewing = NoView

\* the effect of one statement of the call: the committed tables and the transaction
ClearStatement(c, pc) ==
  /\ player_stats' = c.db.player_stats
  /\ processed_logs' = c.db.processed_logs
  /\ clearing' = [pc |-> pc, tx |-> c.tx]
  /\ UNCHANGED <<dirVars, trackVars, table_stats, importVars, merged_from, merges,
                 calc, imported, raised, stats_table, viewing>>

\* conn.execute("DELETE FROM player_stats"), the first statement: the transaction
\* starts from the committed tables
ClearDeletePlayers ==
  /\ clearing.pc = "delete_players"
  /\ ClearStatement(execute_delete([db |-> Committed, tx |-> Committed], "player_stats"),
                    "delete_logs")

\* conn.execute("DELETE FROM processed_logs")
ClearDeleteLogs ==
  /\ clearing.pc = "delete_logs"
  /\ ClearStatement(execute_delete(ClearConn, "processed_logs"), "commit")

\* conn.commit()
ClearCommit ==
  /\ clearing.pc = "commit"
  /\ ClearStatement(commit(ClearConn), "done")

\* a merge_stats call beside the clear: its read sees the committed tables, its
\* write waits for the write lock
NextClear ==
  \/ ClearDeletePlayers
  \/ ClearDeleteLogs
  \/ ClearCommit
  \/ \E t \in MergeThreads : MergeRead(t)
  \/ \E t \in MergeThreads : ~ClearTxOpen /\ MergeWrite(t)

SpecClear == InitClear /\ [][NextClear]_vars

(***************************************************************************)
(* Properties of the live/batch accounting.                                *)
(***************************************************************************)
\* the step is the commit of a tracking session that has something to commit
CommitStep == StopTracking /\ has_pending(log_watcher)

\* C1: no double count.  When tracking stops after any number of polls, the last
\* of which saw the whole source, what the commit adds to player_stats for a player
\* of the source, together with the baseline the session started from (nothing for
\* a source never seen), is exactly what import_all_logs merges for the finished
\* source: the totals computed over the whole file.
C1_NoDoubleCount ==
  [][(CommitStep /\ log_watcher.last_action_id = flen[log_watcher.current_log])
      => LET f == log_watcher.current_log
             file_totals == FileStats[f][flen[f]]
         IN  \A n \in DOMAIN file_totals :
               AddStats(SubStats(GetOrZero(player_stats', n), GetOrZero(player_stats, n)),
                        GetOrZero(log_watcher.imported_file_stats, n)) = file_totals[n]]_vars

\* C1 happens: with no import ever started, a session on F that polled up to its
\* last row has been committed and the store holds F's totals
C1_Witness ==
  /\ ~is_tracking
  /\ \A i \in Imports : import_pc[i] = "idle"
  /\ flen["F"] = MaxActions
  /\ "F" \in DOMAIN processed_logs
  /\ processed_logs["F"].last_action_id = MaxActions
  /\ "B" \in DOMAIN player_stats
  /\ player_stats["B"] = FileStats["F"][MaxActions]["B"]
  /\ player_stats["B"].total_calls > 0

\* C2: live polling is read-only on persisted state.  A step that changes
\* player_stats or processed_logs is the commit at tracking stop, a clear-all or a
\* step of an import; no poll, watcher start or view computation changes them.
C2_PollingReadOnly ==
  [][dbVars' # dbVars
      => \/ StopTracking
         \/ ClearStats
         \/ \E i \in Imports : ImportClear(i) \/ ImportFile(i)]_vars

\* C2 happens: a running watcher has polled a source and emitted a view of it
\* while nothing of that source is persisted
C2_Witness ==
  /\ watcher_thread = "running"
  /\ log_watcher.last_action_id = MaxActions
  /\ DOMAIN table_stats # {}
  /\ player_stats = EmptyDict
  /\ processed_logs = EmptyDict

\* no import was cancelled while its thread was still running (the runs where
\* tracking, clear-all and imports strictly follow one another)
NoCancelledImport == \A i \in Imports : ~cancelled[i]

\* C3: after a live commit of a source, the deltas merged for the source since the
\* last clear-all add up, for every player and counter, to the totals last computed
\* for the source, and the ledger entry of the source holds those same totals.
\* (Stated over the runs without a cancelled import.)
C3_CommitSumsToCurrent ==
  [][(CommitStep /\ NoCancelledImport)
      => LET f == log_watcher.current_log
             current == log_watcher.current_file_stats
         IN  /\ \A n \in DOMAIN current : merged_from'[f][n] = current[n]
             /\ f \in DOMAIN processed_logs'
             /\ json_loads(processed_logs'[f].stats_json) = current]_vars

\* C5: after a clear-all the ledger holds no entry for a source, and the next live
\* commit of the source merges its full current totals, as for a source never seen,
\* also when the watcher tracking it was running when the clear was done.
\* (Stated over the runs without a cancelled import.)
C5_CommitAfterClearIsFull ==
  [][(CommitStep /\ NoCancelledImport /\ log_watcher.current_log \notin DOMAIN processed_logs)
      => \A n \in DOMAIN log_watcher.current_file_stats :
           /\ n \in DOMAIN player_stats'
           /\ player_stats'[n] = AddStats(GetOrZero(player_stats, n),
                                          log_watcher.current_file_stats[n])]_vars

\* what request_table_stats would present now, and the players at the table
View == get_aggregated_table_stats(get_all_players_stats(player_stats), log_watcher)
TablePlayers == Range(log_watcher.current_table_players)

\* source f is in the ledger, unchanged since the entry was written, and is the
\* source being tracked
ReopenedUnchanged(f) ==
  /\ is_tracking
  /\ log_watcher.current_log = f
  /\ f \in DOMAIN processed_logs
  /\ processed_logs[f].last_action_id = flen[f]
  /\ NoCancelledImport

\* C4: reopening an imported source.  While tracking a source that the ledger
\* holds and that has not changed since, the view presented for every table player
\* equals the player's persisted record, and stopping the tracking leaves
\* player_stats as it was (the delta merged is all-zero).
C4_ReopenImported ==
  [][\A f \in Files :
       ReopenedUnchanged(f)
         => /\ \A n \in TablePlayers :
                 n \in DOMAIN View /\ n \in DOMAIN player_stats /\ View[n] = player_stats[n]
            /\ StopTracking => player_stats' = player_stats]_vars

\* C4 happens: F was imported, is unchanged, is tracked again, and its players
\* (with counted hands) are presented
C4_Witness ==
  /\ ReopenedUnchanged("F")
  /\ \E i \in Imports : import_pc[i] = "done"
  /\ has_pending(log_watcher)
  /\ TablePlayers = {"A", "B"}
  /\ View["B"].total_hands > 0

\* the view of a table player as persisted + current - baseline, a missing
\* persisted, current or baseline record read as all-zero
ViewFormula(n) ==
  SubStats(AddStats(GetOrZero(player_stats, n), GetOrZero(log_watcher.current_file_stats, n)),
           GetOrZero(log_watcher.imported_file_stats, n))

\* the baseline the watcher holds is the ledger's entry of the source it tracks
BaselineIsLedgerEntry ==
  log_watcher.imported_file_stats =
    get_imported_file_stats(processed_logs, log_watcher.current_log)

\* C7 as stated: for every player at the table that is presented, the view is
\* persisted + current - baseline in every counter, missing records read as zero.
\* (Stated where the watcher's baseline is the ledger's entry.)
C7_ViewIsFormula ==
  BaselineIsLedgerEntry
    => \A n \in TablePlayers \cap DOMAIN View : View[n] = ViewFormula(n)

\* C7 amended: a table player with a persisted and a current record is presented
\* persisted + current - baseline (a missing baseline read as zero); with only one
\* of the two records the player is presented that record as it is, the baseline
\* not subtracted; with neither the player is not presented.
C7_ViewByCase ==
  /\ DOMAIN View \subseteq TablePlayers
  /\ \A n \in TablePlayers :
       LET in_db   == n \in DOMAIN player_stats
           in_file == n \in DOMAIN log_watcher.current_file_stats
       IN  /\ (in_db \/ in_file) <=> n \in DOMAIN View
           /\ (in_db /\ in_file) => View[n] = ViewFormula(n)
           /\ (in_db /\ ~in_file) => View[n] = player_stats[n]
           /\ (~in_db /\ in_file) => View[n] = log_watcher.current_file_stats[n]

\* C7 amended happens: a table player with one of the two records missing and a
\* baseline that counts hands is presented
C7_Witness ==
  \E n \in TablePlayers \cap DOMAIN View :
    /\ n \notin DOMAIN player_stats \/ n \notin DOMAIN log_watcher.current_file_stats
    /\ n \in DOMAIN log_watcher.imported_file_stats
    /\ log_watcher.imported_file_stats[n].total_hands > 0

\* every source is in the ledger and has not grown since its entry was written
SourcesUnchanged ==
  \A f \in Files : f \in DOMAIN processed_logs /\ processed_logs[f].last_action_id = flen[f]

\* import i has just returned, its dialog still up, and no other import thread
\* has run beside it
ImportJustReturned(i) ==
  /\ import_pc[i] = "signal"
  /\ import_thread = i
  /\ \A j \in Imports \ {i} : import_pc[j] \in {"idle", "done"}

\* C6: batch import is idempotent.  When an import has returned and the sources
\* are as it read them, running import_all_logs once more over them leaves
\* player_stats (every counter of every player) and processed_logs as they are.
C6_ImportIdempotent ==
  \A i \in Imports :
    (ImportJustReturned(i) /\ SourcesUnchanged)
      => import_all_logs(player_stats, processed_logs, flen)
           = [player_stats |-> player_stats, processed_logs |-> processed_logs]

\* C6 happens: an import over two sources with counted hands has returned
C6_Witness ==
  /\ \E i \in Imports : ImportJustReturned(i)
  /\ SourcesUnchanged
  /\ \A f \in Files : flen[f] = MaxActions
  /\ player_stats["A"].total_hands > 1

\* the import threads running import_all_logs
ImportsInFlight == {i \in Imports : import_pc[i] \in {"clear", "files"}}

\* C9: at most one store-writing operation is in flight at any time: never two
\* imports at once, and no live commit while an import runs.
C9_SingleWriter ==
  [][/\ Cardinality(ImportsInFlight) <= 1
     /\ CommitStep => ImportsInFlight = {}]_vars

\* C10: cooperative cancellation.  Once the cancellation of an import is
\* requested the import merges no further source and writes no further baseline
\* entry: player_stats and processed_logs stay as its last merged source left them.
C10_CancelStopsImport ==
  [][\A i \in Imports : cancelled[i] => ~ImportFile(i)]_vars

\* the store once the calls of the threads ts are added to store ps, one after another
RECURSIVE AllMerged(_, _)
AllMerged(ps, ts) ==
  IF ts = {} THEN ps
  ELSE LET t == CHOOSE x \in ts : TRUE
       IN  AllMerged(merge_stats(ps, merges.calls[t].new_stats), ts \ {t})

\* C8: concurrent merges lose no update.  When the merge_stats calls of two
\* threads have both returned, player_stats is the store they began on with both
\* deltas added: a player named by both calls has both added in every counter,
\* and a call for one player leaves the record of another as it was.
C8_NoLostUpdate ==
  (\A t \in MergeThreads : merges.calls[t].pc = "done")
    => player_stats = AllMerged(merges.prior, MergeThreads)

\* a statement of the clear_all_stats call
ClearStep == ClearDeletePlayers \/ ClearDeleteLogs \/ ClearCommit

\* C11: clear_all_stats is atomic.  No statement of the call leaves the committed
\* tables, which are all a reader, a starting import or a commit can see, with one
\* of player_stats and processed_logs emptied by the call and the other not: a
\* statement either changes neither table or leaves both empty.
C11_ClearAtomic ==
  [][ClearStep => \/ UNCHANGED dbVars
                  \/ (player_stats' = EmptyDict /\ processed_logs' = EmptyDict)]_vars

\* C11 happens: the call stands between its two DELETEs, player_stats already
\* empty inside its transaction, and both committed tables still hold their rows
C11_Witness ==
  /\ clearing.pc = "delete_logs"
  /\ clearing.tx.player_stats = EmptyDict
  /\ clearing.tx.processed_logs # EmptyDict
  /\ player_stats # EmptyDict
  /\ processed_logs # EmptyDict
\* C12: a negative delta is clamped.  A commit never lowers a counter of a record
\* of player_stats: where currentTotal - imp is negative in a counter, nothing is
\* subtracted from the store.
C12_CommitNeverSubtracts ==
  [][CommitStep => \A n \in DOMAIN player_stats : \A k \in Counters :
                     n \in DOMAIN player_stats' /\ player_stats'[n][k] >= player_stats[n][k]]_vars

\* C13: no counter of any record of player_stats is ever negative.
C13_NoNegativeCounter ==
  \A n \in DOMAIN player_stats : \A k \in Counters : player_stats[n][k] >= 0
\* C14: in every record calculate_player_stats produces, made <= opportunity for
\* each of the four pairs three_bet, cbet, fold_to_3bet and fold_to_cbet.
C14_MadeWithinOpportunity ==
  \A n \in DOMAIN calc.stats :
    /\ calc.stats[n].three_bet_made <= calc.stats[n].three_bet_opportunities
    /\ calc.stats[n].cbet_made <= calc.stats[n].cbet_opportunities
    /\ calc.stats[n].fold_to_3bet_made <= calc.stats[n].fold_to_3bet_opportunities
    /\ calc.stats[n].fold_to_cbet_made <= calc.stats[n].fold_to_cbet_opportunities

\* C14 happens: a hand in which A made the c-bet it had the chance of, B folded to
\* that c-bet, and B passed on the 3-bet it had the chance of
C14_Witness ==
  /\ calc.stats["A"].cbet_opportunities = 1 /\ calc.stats["A"].cbet_made = 1
  /\ calc.stats["B"].fold_to_cbet_opportunities = 1 /\ calc.stats["B"].fold_to_cbet_made = 1
  /\ calc.stats["B"].three_bet_opportunities = 1 /\ calc.stats["B"].three_bet_made = 0
\* a row whose verb holds none of the recognised substrings
Malformed(row) == LowerSubstrings(row.verb) = {}

\* the log without its i-th row
RemoveAt(acts, i) == SubSeq(acts, 1, i - 1) \o SubSeq(acts, i + 1, Len(acts))

\* C19: a malformed action record is skipped.  For every malformed row of the log,
\* the records the accumulator produces from the log equal, player by player and
\* counter by counter, those it produces from the log without that row.
C19_MalformedSkipped ==
  \A i \in DOMAIN calc.acts :
    Malformed(calc.acts[i])
      => calc.stats = calculate_all_players_stats(RemoveAt(calc.acts, i), PlayerTable["F"])

\* the preflop rows of the hand under the accumulator
CalcPreflop == get_actions(calc.acts, 1, 1, 0)

\* the player's preflop raises, and the first raise of another seat after one of them
RaisesOf(seat) ==
  {i \in DOMAIN CalcPreflop : /\ CalcPreflop[i].seat = seat
                              /\ ContainsAny(CalcPreflop[i].verb, RAISE_ACTIONS)}
ThreeBetsAgainst(seat) ==
  {j \in DOMAIN CalcPreflop : /\ CalcPreflop[j].seat # seat
                              /\ ContainsAny(CalcPreflop[j].verb, RAISE_ACTIONS)
                              /\ \E i \in RaisesOf(seat) : i < j}
Min(S) == CHOOSE x \in S : \A y \in S : x <= y

\* the player's next preflop row after the 3-bet is a fold
FoldsNextAfter3Bet(seat) ==
  LET later == {k \in DOMAIN CalcPreflop : /\ k > Min(ThreeBetsAgainst(seat))
                                           /\ CalcPreflop[k].seat = seat}
  IN  later # {} /\ ContainsAny(CalcPreflop[Min(later)].verb, FOLD_ACTIONS)

\* C20: Fold-to-3-Bet.  In a hand where the player raised preflop, the opportunity
\* is counted iff another seat raises after the player's raise, and made is counted
\* iff the player's next preflop row after that 3-bet is a fold.
C20_FoldTo3Bet ==
  \A r \in PlayerTable["F"] :
    RaisesOf(r.seat) # {}
      => /\ calc.stats[r.name].fold_to_3bet_opportunities = 1
              <=> ThreeBetsAgainst(r.seat) # {}
         /\ calc.stats[r.name].fold_to_3bet_made = 1
              <=> (ThreeBetsAgainst(r.seat) # {} /\ FoldsNextAfter3Bet(r.seat))
\* the sequences that list every element of S once
Orders(S) == {o \in [1..Cardinality(S) -> S] : \A x \in S : \E i \in DOMAIN o : o[i] = x}

\* the field-wise sum of the player's records over the sources of S, as computed
\* by the accumulator on each source
RECURSIVE SumOverSources(_, _)
SumOverSources(S, name) ==
  IF S = {} THEN PlayerStats(name)
  ELSE LET f == CHOOSE x \in S : TRUE
       IN  [k \in Counters \cup {"player_name"} |->
              IF k = "player_name" THEN name
              ELSE SumOverSources(S \ {f}, name)[k]
                     + GetOrZero(FileStats[f][flen[f]], name)[k]]

\* the ledger entry of f holds the records the accumulator computes on f and the
\* highest ActionID of f
LedgerEntryIsComputed(f) ==
  /\ f \in DOMAIN processed_logs
  /\ processed_logs[f].last_action_id = flen[f]
  /\ json_loads(processed_logs[f].stats_json) = FileStats[f][flen[f]]

\* the sources import i read have not changed since
ReadSourcesUnchanged(i) ==
  \A f \in Files \ raised[i] : f \in DOMAIN processed_logs => processed_logs[f].last_action_id = flen[f]

\* C15: after a batch import in which no source fails, the ledger entry of every
\* source is the records the accumulator computed for it with its highest ActionID,
\* every player's record in player_stats is the field-wise sum of the player's
\* records over all sources, and processing the sources in any other order gives
\* the same tables.
C15_ImportIsSumOverSources ==
  \A i \in Imports :
    (ImportJustReturned(i) /\ raised[i] = {} /\ ReadSourcesUnchanged(i))
      => /\ \A f \in Files : LedgerEntryIsComputed(f)
         /\ DOMAIN player_stats = UNION {DOMAIN FileStats[f][flen[f]] : f \in Files}
         /\ \A n \in DOMAIN player_stats : player_stats[n] = SumOverSources(Files, n)
         /\ \A o \in Orders(Files) :
              import_sources([player_stats |-> EmptyDict, processed_logs |-> EmptyDict], o, flen)
                = [player_stats |-> player_stats, processed_logs |-> processed_logs]

\* C15 happens: an import over two full sources, none of which failed, has
\* returned, and A, who sits in both, has hands from both
C15_Witness ==
  /\ \E i \in Imports : /\ ImportJustReturned(i)
                        /\ raised[i] = {}
                        /\ imported[i] = Cardinality(Files)
  /\ \A f \in Files : flen[f] = MaxActions /\ LedgerEntryIsComputed(f)
  /\ player_stats["A"].total_hands = 2

MergeStep(t) ==
  /\ MergeWrite(t)
  /\ merges.calls[t].existing
       = get_player_stats(player_stats, merges.calls[t].new_stats.player_name)

\* C16: merge_stats(delta) adds each of the 16 counters of delta to the stored
\* record of delta's player and leaves every other player's record as it is; when
\* the player has no record, the record is created with delta's values.
C16_MergeAddsFieldwise ==
  [][\A t \in MergeThreads :
       MergeStep(t)
         => LET delta == merges.calls[t].new_stats
                p     == delta.player_name
            IN  /\ DOMAIN player_stats' = DOMAIN player_stats \cup {p}
                /\ \A n \in DOMAIN player_stats \ {p} : player_stats'[n] = player_stats[n]
                /\ player_stats'[p].player_name = p
                /\ \A k \in Counters :
                     player_stats'[p][k]
                       = (IF p \in DOMAIN player_stats THEN player_stats[p][k] ELSE 0) + delta[k]]_vars

\* C16 happens: one call has added a delta with counted hands to the record its
\* player already had, next to the record of another player, and the other call
\* has not begun
C16_Witness ==
  LET delta == merges.calls["import"].new_stats
      p     == delta.player_name
  IN  /\ merges.calls["import"].pc = "done"
      /\ merges.calls["commit"].pc = "read"
      /\ delta.total_hands > 0
      /\ p \in DOMAIN merges.prior /\ merges.prior[p].total_hands > 0
      /\ player_stats[p].total_hands = merges.prior[p].total_hands + delta.total_hands
      /\ DOMAIN player_stats # {p}
\* the players the tracked log seats at its last game
SeatedPlayers(f) == get_current_table_players(PlayerTable[f], GameTable[f])

\* a lock error has cut a _process_updates call short, and nothing has made up
\* for it since: the watcher has recorded actions of its log without having taken
\* the players of the table
LockCutShort ==
  /\ log_watcher.current_log # NoLog
  /\ log_watcher.last_action_id > 0
  /\ log_watcher.current_table_players # SeatedPlayers(log_watcher.current_log)

\* C18: a transient lock is retried on the next poll.  While the watcher runs,
\* a _process_updates call cut short by a lock error is made up for by a later
\* poll that meets no lock, whether or not PokerTH writes a further action: the
\* watcher takes the players of the table and emits the stats update.
C18_LockRetried ==
  (watcher_thread = "running" /\ LockCutShort)
    ~> (watcher_thread # "running" \/ ~LockCutShort)
\* 1 for a hand that is counted, 0 for one that is not
Counted(b) == IF b THEN 1 ELSE 0

\* the seat's own preflop rows that are no blind
OwnNonBlind(seat) ==
  {i \in DOMAIN CalcPreflop : /\ CalcPreflop[i].seat = seat
                              /\ ~Contains(CalcPreflop[i].verb, "blind")}

\* another seat raises strictly before the seat's first non-blind preflop row
RaiseBefore(seat) ==
  /\ OwnNonBlind(seat) # {}
  /\ \E j \in DOMAIN CalcPreflop : /\ j < Min(OwnNonBlind(seat))
                                   /\ CalcPreflop[j].seat # seat
                                   /\ ContainsAny(CalcPreflop[j].verb, RAISE_ACTIONS)

\* C21: 3-Bet.  The opportunity is counted for a hand iff a seat other than the
\* player's raises preflop strictly before the player's first non-blind preflop
\* action; made is counted iff there is an opportunity and one of the player's
\* non-blind preflop actions is a raise.
C21_ThreeBet ==
  \A r \in PlayerTable3 :
    /\ calc.stats[r.name].three_bet_opportunities = Counted(RaiseBefore(r.seat))
    /\ calc.stats[r.name].three_bet_made
         = Counted(/\ RaiseBefore(r.seat)
                   /\ \E i \in OwnNonBlind(r.seat) :
                        ContainsAny(CalcPreflop[i].verb, RAISE_ACTIONS))

\* C21 happens: A raises, B, who has posted the blind, re-raises when its turn comes
\* and C calls: B and C had the opportunity, B made the 3-bet, A had none
C21_Witness ==
  /\ calc.stats["A"].pfr_hands = 1 /\ calc.stats["A"].three_bet_opportunities = 0
  /\ calc.stats["B"].three_bet_opportunities = 1 /\ calc.stats["B"].three_bet_made = 1
  /\ calc.stats["C"].three_bet_opportunities = 1 /\ calc.stats["C"].three_bet_made = 0
  /\ \E i \in DOMAIN calc.acts : calc.acts[i].seat = 2 /\ Contains(calc.acts[i].verb, "blind")
\* the flop rows of the hand under the accumulator
CalcFlop == get_actions(calc.acts, 1, 1, 1)

Max(S) == CHOOSE x \in S : \A y \in S : y <= x

\* the last seat other than `seat` to raise preflop, 0 when no other seat raises
LastRaiser(seat) ==
  LET others == UNION {RaisesOf(s) : s \in {1, 2, 3} \ {seat}}
  IN  IF others = {} THEN 0 ELSE CalcPreflop[Max(others)].seat

\* the flop bets of that raiser, and the seat's flop rows after the first of them
CBetsAgainst(seat) ==
  {i \in DOMAIN CalcFlop : /\ CalcFlop[i].seat = LastRaiser(seat)
                           /\ ContainsAny(CalcFlop[i].verb, RAISE_ACTIONS)}
AfterCBet(seat) ==
  {k \in DOMAIN CalcFlop : k > Min(CBetsAgainst(seat)) /\ CalcFlop[k].seat = seat}

FacesCBet(seat) ==
  /\ \E i \in DOMAIN CalcFlop : CalcFlop[i].seat = seat
  /\ CBetsAgainst(seat) # {}
  /\ AfterCBet(seat) # {}

\* C22: Fold-to-C-Bet.  For a hand whose flop the player saw, the raiser being the
\* last seat other than the player to raise preflop, the opportunity is counted
\* iff the raiser bets on the flop and the player acts on the flop after that bet,
\* and made is counted iff the player's first flop action after that bet is a
\* fold; without such a raiser nothing is counted.
C22_FoldToCBet ==
  \A r \in PlayerTable3 :
    /\ calc.stats[r.name].fold_to_cbet_opportunities = Counted(FacesCBet(r.seat))
    /\ calc.stats[r.name].fold_to_cbet_made
         = Counted(/\ FacesCBet(r.seat)
                   /\ ContainsAny(CalcFlop[Min(AfterCBet(r.seat))].verb, FOLD_ACTIONS))

\* C22 happens: B and then C raise preflop, C bets on the flop and A folds to it
C22_Witness ==
  /\ RaisesOf(2) # {} /\ RaisesOf(3) # {}
  /\ LastRaiser(1) = 3
  /\ calc.stats["A"].fold_to_cbet_opportunities = 1
  /\ calc.stats["A"].fold_to_cbet_made = 1
\* the seat made a preflop raise: one of its non-blind preflop rows matches subs
OwnPreflopMatch(seat, subs) ==
  \E i \in OwnNonBlind(seat) : ContainsAny(CalcPreflop[i].verb, subs)

\* C23: C-Bet.  The opportunity is counted for a hand iff the player made a
\* preflop raise in it and the flop round has at least one action by any seat;
\* made is counted iff there is an opportunity and the player has a flop action
\* that is a raise.
C23_CBet ==
  \A r \in PlayerTable3 :
    LET opp == OwnPreflopMatch(r.seat, {"bets", "is all in with"}) /\ CalcFlop # << >>
    IN  /\ calc.stats[r.name].cbet_opportunities = Counted(opp)
        /\ calc.stats[r.name].cbet_made
             = Counted(opp /\ \E i \in DOMAIN CalcFlop :
                                 /\ CalcFlop[i].seat = r.seat
                                 /\ ContainsAny(CalcFlop[i].verb, {"bets", "is all in with"}))

\* C23 happens: A raised preflop and folded to B's re-raise, and the flop is played
\* without A: A has the opportunity and no c-bet, B has the opportunity and the c-bet
C23_Witness ==
  /\ 1 \in Folded(CalcPreflop)
  /\ calc.stats["A"].cbet_opportunities = 1 /\ calc.stats["A"].cbet_made = 0
  /\ calc.stats["B"].cbet_opportunities = 1 /\ calc.stats["B"].cbet_made = 1
  /\ calc.stats["C"].cbet_opportunities = 0
\* C24: VPIP and PFR.  A hand counts toward vpip_hands iff one of the player's own
\* preflop actions whose verb holds no "blind" matches calls, bets or is all in
\* with, and toward pfr_hands iff one such action matches bets or is all in with;
\* a hand is counted at most once for each.
C24_VpipPfr ==
  \A r \in PlayerTable["F"] :
    /\ calc.stats[r.name].vpip_hands
         = Counted(OwnPreflopMatch(r.seat, {"calls", "bets", "is all in with"}))
    /\ calc.stats[r.name].pfr_hands
         = Counted(OwnPreflopMatch(r.seat, {"bets", "is all in with"}))

\* C24 happens: B posts the blind, A calls and calls again, B goes all in: one
\* VPIP hand and no PFR hand for A, one of each for B, the blind not counting
C24_Witness ==
  /\ \E i \in DOMAIN calc.acts : calc.acts[i].seat = 2 /\ Contains(calc.acts[i].verb, "blind")
  /\ \E i \in DOMAIN calc.acts : calc.acts[i].seat = 2 /\ Contains(calc.acts[i].verb, "is all in with")
  /\ Cardinality({i \in OwnNonBlind(1) : Contains(CalcPreflop[i].verb, "calls")}) = 2
  /\ calc.stats["A"].vpip_hands = 1 /\ calc.stats["A"].pfr_hands = 0
  /\ calc.stats["B"].vpip_hands = 1 /\ calc.stats["B"].pfr_hands = 1

\* the rows of the showdown round of the hand written so far
CalcShowdown == get_actions(calc.acts, 1, 1, 4)

\* the seat saw the flop, the hand has a showdown round and the seat has a row in it
WentToShowdown(seat) ==
  /\ \E i \in DOMAIN CalcFlop : CalcFlop[i].seat = seat
  /\ \E i \in DOMAIN calc.acts : calc.acts[i].bero = 4
  /\ \E i \in DOMAIN CalcShowdown : CalcShowdown[i].seat = seat

\* C25: showdown counters.  A hand counts toward hands_went_to_showdown iff the
\* player saw the flop, the hand has a showdown round and the player has a row in
\* it; it counts toward showdowns_won iff, in addition, the seat of the "wins" row
\* of the showdown round is the player's seat.
C25_Showdown ==
  \A r \in PlayerTable["F"] :
    /\ calc.stats[r.name].hands_went_to_showdown = Counted(WentToShowdown(r.seat))
    /\ calc.stats[r.name].showdowns_won
         = Counted(/\ WentToShowdown(r.seat)
                   /\ \E i \in DOMAIN CalcShowdown :
                        /\ CalcShowdown[i].seat = r.seat
                        /\ Contains(CalcShowdown[i].verb, "wins"))

\* the non-blind rows of a round, as <<seat, verb>> pairs
Moves(rows) ==
  LET nb == SelectSeq(rows, LAMBDA a : ~Contains(a.verb, "blind"))
  IN  [i \in DOMAIN nb |-> <<nb[i].seat, nb[i].verb>>]

\* the hand of the example: a raises preflop, b calls, a bets the flop, b folds
ExampleHand(a, b) ==
  /\ Moves(CalcPreflop) = << <<a, "bets">>, <<b, "calls">> >>
  /\ Moves(CalcFlop) = << <<a, "bets">>, <<b, "folds">> >>

\* C26: worked example.  For a hand where seat A bets preflop, seat B calls, seat A
\* bets on the flop and seat B folds, seat B gets vpip 1, pfr 0, fold-to-c-bet
\* opportunity 1 and made 1, c-bet opportunity 0; seat A gets pfr 1, c-bet
\* opportunity 1 and made 1.
C26_WorkedExample ==
  \A ra, rb \in PlayerTable["F"] :
    ExampleHand(ra.seat, rb.seat)
      => LET A == calc.stats[ra.name]
             B == calc.stats[rb.name]
         IN  /\ B.vpip_hands = 1 /\ B.pfr_hands = 0
             /\ B.fold_to_cbet_opportunities = 1 /\ B.fold_to_cbet_made = 1
             /\ B.cbet_opportunities = 0
             /\ A.pfr_hands = 1 /\ A.cbet_opportunities = 1 /\ A.cbet_made = 1

\* C26 happens: the log holds the four rows of the example, seat 1 raising
C26_Witness ==
  /\ Len(calc.acts) = 4
  /\ ExampleHand(1, 2)
  /\ calc.stats["B"].fold_to_cbet_made = 1
  /\ calc.stats["A"].cbet_made = 1

\* the float is the quotient n / d
IsQuotient(x, n, d) == ~x.inf /\ x.den # 0 /\ x.num * d = n * x.den

IsZero(x) == ~x.inf /\ x.den # 0 /\ x.num = 0

\* the percentage metrics with the counter each one divides by
Denominators(s) ==
  [vpip |-> s.total_hands, pfr |-> s.total_hands,
   three_bet |-> s.three_bet_opportunities, cbet |-> s.cbet_opportunities,
   fold_to_3bet |-> s.fold_to_3bet_opportunities,
   fold_to_cbet |-> s.fold_to_cbet_opportunities,
   wtsd |-> s.hands_saw_flop, wsd |-> s.hands_went_to_showdown]

\* C27: aggression ratio.  af is total_bets / total_calls when total_calls > 0;
\* with total_calls = 0 it is the infinite value when total_bets > 0 and 0
\* otherwise; and every percentage metric is 0 when the counter it divides by is 0.
C27_DerivedMetrics ==
  \A r \in PlayerTable["F"] :
    LET s == calc.stats[r.name]
    IN  /\ s.total_calls > 0 => IsQuotient(af(s), s.total_bets, s.total_calls)
        /\ (s.total_calls = 0 /\ s.total_bets > 0) => af(s) = Infinity
        /\ (s.total_calls = 0 /\ s.total_bets = 0) => IsZero(af(s))
        /\ \A m \in DOMAIN Denominators(s) :
             Denominators(s)[m] = 0 => IsZero(percentages(s)[m])

\* C27 happens: A has bet twice and never called, B has called twice; B saw no
\* showdown, so its W$SD divides by 0
C27_Witness ==
  /\ calc.stats["A"].total_bets = 2 /\ calc.stats["A"].total_calls = 0
  /\ af(calc.stats["A"]) = Infinity
  /\ calc.stats["B"].total_calls = 2
  /\ IsQuotient(af(calc.stats["B"]), 0, 2)
  /\ calc.stats["B"].hands_went_to_showdown = 0
  /\ IsZero(percentages(calc.stats["B"]).wsd)

\* the player has the infinite aggression ratio: no call and some bets
HasInfiniteAF(name) ==
  player_stats[name].total_calls = 0 /\ player_stats[name].total_bets > 0

\* C28: in the ordering of the AF column a player with the infinite aggression
\* ratio is strictly greater than every player with a finite ratio, whatever the
\* bet and call counters: its item compares greater, and a sort by the column
\* puts it after the finite one when ascending and before it when descending.
C28_InfiniteSortsLast ==
  \A i, j \in DOMAIN stats_table.rows :
    LET inf == stats_table.rows[i]
        fin == stats_table.rows[j]
    IN  (HasInfiniteAF(inf.name) /\ ~HasInfiniteAF(fin.name))
          => /\ __lt__(fin.af, inf.af)
             /\ stats_table.sort = <<3, "asc">> => j < i
             /\ stats_table.sort = <<3, "desc">> => i < j

\* the step creates the baseline entry of source f or gives it another value
WritesBaseline(f) ==
  /\ f \in DOMAIN processed_logs'
  /\ f \notin DOMAIN processed_logs \/ processed_logs'[f] # processed_logs[f]

\* the step is a pass of a batch import over f: the totals computed on f are merged
\* and the entry is their snapshot with the last ActionID of f
ImportWrites(f) ==
  \E i \in Imports :
    /\ import_pc[i] = "files"
    /\ import_idx[i] <= Len(SortedFiles)
    /\ SortedFiles[import_idx[i]] = f
    /\ player_stats' = merge_all(player_stats, FileStats[f][flen[f]], DOMAIN FileStats[f][flen[f]])
    /\ processed_logs'[f] = [last_action_id |-> flen[f],
                             stats_json |-> json_dumps(FileStats[f][flen[f]])]

\* the step is the live commit of f: the watcher's totals of f less its baseline are
\* merged and the entry is the snapshot of these totals with the watcher's position
CommitWrites(f) ==
  /\ is_tracking /\ ~is_tracking'
  /\ log_watcher.current_log = f
  /\ DOMAIN log_watcher.current_file_stats # {}
  /\ player_stats' = merge_all(player_stats, pending_deltas(log_watcher),
                               DOMAIN log_watcher.current_file_stats)
  /\ processed_logs'[f] = [last_action_id |-> log_watcher.last_action_id,
                           stats_json |-> json_dumps(log_watcher.current_file_stats)]

\* C29: a baseline entry of a source is created or overwritten only by an operation
\* that merges the source's computed totals into the store (a pass of the batch
\* import over it, or the live commit), and the write sets the snapshot and the
\* position marker together, both from that operation.
C29_BaselineWrittenWithMerge ==
  [][\A f \in Files : WritesBaseline(f) => (ImportWrites(f) \/ CommitWrites(f))]_vars

\* C29 happens: no import has run, and a live commit has written the entry of F: it
\* holds the snapshot of the totals of the whole of F with the last ActionID of F,
\* and these totals are what has been merged from F
C29_Witness ==
  /\ \A i \in Imports : import_pc[i] = "idle" /\ imported[i] = 0
  /\ ~is_tracking
  /\ flen["F"] = MaxActions
  /\ "F" \in DOMAIN processed_logs
  /\ processed_logs["F"] = [last_action_id |-> MaxActions,
                            stats_json |-> json_dumps(FileStats["F"][MaxActions])]
  /\ merged_from["F"] = RecordMerge(NoneMerged, "F", FileStats["F"][MaxActions])["F"]

\* during a tracking period the watcher holds the totals of the first k rows of
\* source f, and the baseline of f stands before row k
HoldsUncommitted(f, k) ==
  /\ is_tracking
  /\ log_watcher.current_log = f
  /\ log_watcher.last_action_id = k
  /\ log_watcher.current_file_stats = FileStats[f][k]
  /\ get_last_processed_action(processed_logs, f) < k

\* the baseline of f has reached row k
CommittedUpTo(f, k) == get_last_processed_action(processed_logs, f) >= k

\* C30: when the watcher switches to a newer log during a tracking period, the
\* hands of the source it leaves that were played since its baseline are committed
\* by the time tracking stops: no source that was active during the period is left
\* with an uncommitted delta.  Stated here in the weaker form that rows the watcher
\* holds uncommitted for a source are committed at some time, given that tracking
\* stops.
C30_ActiveSourcesCommitted ==
  \A f \in Files : \A k \in 1..MaxActions :
    HoldsUncommitted(f, k) ~> CommittedUpTo(f, k)

\* C31: every way a live session ends commits its delta.  A step that ends
\* tracking (Stop tracking, or closing the application while tracking) merges the
\* watcher's totals less its baseline into the store and overwrites the baseline
\* entry of the tracked source, as save_pending_stats does.
C31_SessionEndCommits ==
  [][(is_tracking /\ ~is_tracking')
       => /\ player_stats' = save_pending_player_stats(player_stats, log_watcher)
          /\ processed_logs' = save_pending_processed_logs(processed_logs, log_watcher)]_vars

\* the window takes the request, and the most recent log holds an action
CanStartTracking == ~is_tracking /\ import_thread = 0 /\ flen[latest] > 0

C33_CommitAgreesWithView ==
  [][StopTracking
      => \A name \in DOMAIN View :
           /\ name \in DOMAIN player_stats'
           /\ player_stats'[name] = View[name]]_vars
\* C34: when import_all_logs returns, every source either has a ledger entry and the
\* records merged for it since the import's clear-all are the full records of that
\* entry for all of its players, or it has no ledger entry and nothing was merged for
\* it - also when a pass raised while its per-player merges were in progress.
C34_ImportPerSourceAtomic ==
  [][\A i \in Imports :
       ImportReturn(i)
         => \A f \in Files :
              IF f \in DOMAIN processed_logs
              THEN \A n \in Names :
                     merged_from[f][n] = GetOrZero(json_loads(processed_logs[f].stats_json), n)
              ELSE merged_from[f] = NoneMerged[f]]_vars
\* C35: the record calculate_player_stats returns while rows are appended between
\* its reads is the record the accumulator computes over one prefix of the log, and
\* so has vpip_hands <= total_hands.
C35_SnapshotConsistent ==
  Len(calc.seen) = Len(Reads)
    => /\ \E n \in 0..Len(calc.acts) :
            calc.stats = calculate_player_stats(SubSeq(calc.acts, 1, n), PlayerTable["F"], "A")
       /\ calc.stats.vpip_hands <= calc.stats.total_hands
\* the row a step appends keeps the order of play: no row of its hand belongs to a
\* later betting round
AppendsInPlayOrder ==
  /\ Len(calc'.acts) = Len(calc.acts) + 1
  /\ LET row == calc'.acts[Len(calc'.acts)]
     IN  \A i \in DOMAIN calc.acts :
           (calc.acts[i].game = row.game /\ calc.acts[i].hand = row.hand)
             => calc.acts[i].bero <= row.bero

NoCounterDecreases ==
  \A name \in DOMAIN calc.stats : \A k \in Counters :
     calc.stats[name][k] <= calc'.stats[name][k]

C37_RecordOrdering ==
  \A name \in DOMAIN calc.stats :
    LET s == calc.stats[name]
    IN  /\ s.pfr_hands <= s.vpip_hands
        /\ s.vpip_hands <= s.total_hands
        /\ s.three_bet_opportunities <= s.total_hands
        /\ s.cbet_opportunities <= s.pfr_hands
        /\ s.fold_to_3bet_opportunities <= s.pfr_hands
        /\ s.fold_to_cbet_opportunities <= s.hands_saw_flop
        /\ s.showdowns_won <= s.hands_went_to_showdown
        /\ s.hands_went_to_showdown <= s.hands_saw_flop
        /\ s.hands_saw_flop <= s.total_hands

\* a hand A raised preflop, played on the flop and won at the showdown
C37_Witness ==
  /\ calc.stats["A"].pfr_hands = 1
  /\ calc.stats["A"].cbet_opportunities = 1
  /\ calc.stats["A"].showdowns_won = 1
\* C38: a second save_pending_stats right after the first, with no poll in between,
\* leaves player_stats and processed_logs as the first call left them.
C38_CommitIdempotent ==
  [][StopTracking
      => LET w == save_pending_watcher(log_watcher)
         IN  /\ save_pending_player_stats(player_stats', w) = player_stats'
             /\ save_pending_processed_logs(processed_logs', w) = processed_logs']_vars

\* a commit has merged a hand of A from F
C38_Witness ==
  /\ ~is_tracking
  /\ "F" \in DOMAIN processed_logs
  /\ merged_from["F"]["A"].total_hands = 1
  /\ "A" \in DOMAIN player_stats
  /\ player_stats["A"].total_hands = 1
\* C39: a view computed while the watcher thread polls and switches logs never
\* subtracts the baseline snapshot of one source from the current totals of
\* another: the record read from _current_file_stats and the baseline read from
\* _imported_file_stats belong to the same source.
C39_ViewOfOneSource ==
  [][(ViewReadBaseline /\ viewing.name \in DOMAIN log_watcher.imported_file_stats)
       => viewing.file_of = log_watcher.current_log]_vars

====
